---- MODULE Spec2Model ----
(***************************************************************************)
(* Resource assignment and simulation orchestration of the frontend:       *)
(*   - WorkforcePage.tsx        (pool + per-process ledger, drag handlers, *)
(*                               suggestion fetch, runFullSimulation)      *)
(*   - WorkforceAllocation.tsx  (two-list component, onDragEnd)            *)
(* Employees are identified by the number of their id ('emp-1' is 1).      *)
(* Process nodes are identified by a number; their label is Label(id).     *)
(* A handler is one atomic step (single UI event loop); an async function  *)
(* is cut at its awaits.                                                   *)
(***************************************************************************)
EXTENDS Integers, Sequences, FiniteSets, TLC

\* ------------------------------------------------------------------ bounds
\* number of seed employees kept from initialEmployees
MaxEmployees == 2
\* largest number of nodes in a topology response
MaxNodes == 2
\* suggestion fetches in flight at once
MaxInflight == 1
MaxRace == 2
\* invocations of runFullSimulation in flight at once
MaxRuns == 1
\* `undefined` entries the two-list component may accumulate
MaxStray == 3
\* invocations of runFullSimulation in flight at once, where runs overlap
MaxOverlap == 2
\* WebSockets of the chat that are connecting or open at once
MaxSockets == 2
\* longest message list of the chat
MaxMessages == 3
\* texts the chat passes to send()
MaxSent == 2
\* longest list of per-location results handed to the aggregate
MaxResults == 4
\* /api/simulate requests of WorkforceAllocation in flight
MaxSync == 2
\* scrollHeight - clientHeight of the two scroll regions, in px
MaxScrollPx == 8

\* ------------------------------------------------------------ array helpers
\* the value of reading an array past its end, and of a missing drop target
Undefined == 0

Min(a, b) == IF a < b THEN a ELSE b

\* arr[i] with a 0-based index
At(arr, i) == IF i < Len(arr) THEN arr[i + 1] ELSE Undefined

\* the array left by arr.splice(i, 1)
SpliceOut(arr, i) ==
    IF i < Len(arr)
    THEN SubSeq(arr, 1, i) \o SubSeq(arr, i + 2, Len(arr))
    ELSE arr

\* the array left by arr.splice(i, 0, x)
SpliceIn(arr, i, x) ==
    LET k == Min(i, Len(arr))
    IN  SubSeq(arr, 1, k) \o <<x>> \o SubSeq(arr, k + 1, Len(arr))

Range(s) == {s[i] : i \in 1..Len(s)}

\* number of positions of s holding x
Count(s, x) == Cardinality({i \in 1..Len(s) : s[i] = x})

RECURSIVE Flatten(_)
Flatten(ss) == IF ss = <<>> THEN <<>> ELSE Head(ss) \o Flatten(Tail(ss))

\* injective sequences over S of length at most n
RECURSIVE InjSeqs(_, _)
InjSeqs(S, n) ==
    IF n = 0 THEN {<<>>}
    ELSE LET shorter == InjSeqs(S, n - 1)
         IN  shorter \cup UNION {{Append(s, x) : x \in S \ Range(s)} : s \in shorter}

\* ------------------------------------------------------------------ data
Employees == 1..MaxEmployees
initialEmployees == [i \in 1..MaxEmployees |-> i]

ProcIds == 1..MaxNodes
Label(p) == <<"label", p>>
ProcessNode(p) == [id |-> p, label |-> Label(p)]

PoolId == [kind |-> "employee-pool", id |-> 0]
ProcessDroppable(p) == [kind |-> "process", id |-> p]
NoDestination == [kind |-> "none", id |-> 0]
NoDrag == [draggableId |-> 0, source |-> [droppableId |-> NoDestination, index |-> 0]]

Toast(msg, emp, proc, type) == [msg |-> msg, emp |-> emp, proc |-> proc, type |-> type]

\* the per-location answers of the remote service (POST /api/suggest)
Simulations ==
    { [cycle_time_before |-> 10, cycle_time_after |-> 8, cycle_reduction_pct |-> 20,
       throughput_gain_pct |-> 25, opex_increase |-> 100, is_bottleneck |-> FALSE,
       impact_score |-> 5],
      [cycle_time_before |-> 20, cycle_time_after |-> 10, cycle_reduction_pct |-> 50,
       throughput_gain_pct |-> 100, opex_increase |-> 300, is_bottleneck |-> TRUE,
       impact_score |-> 8] }

Advice(label) == <<"advice", label>>

\* the simulations the aggregate is computed over
SampleSimulations ==
    { [cycle_time_before |-> 10, cycle_time_after |-> 9, cycle_reduction_pct |-> 10,
       throughput_gain_pct |-> 11, opex_increase |-> 100, is_bottleneck |-> FALSE,
       impact_score |-> 3],
      [cycle_time_before |-> 10, cycle_time_after |-> 8, cycle_reduction_pct |-> 20,
       throughput_gain_pct |-> 25, opex_increase |-> 250, is_bottleneck |-> TRUE,
       impact_score |-> 5],
      [cycle_time_before |-> 20, cycle_time_after |-> 14, cycle_reduction_pct |-> 30,
       throughput_gain_pct |-> 43, opex_increase |-> 0, is_bottleneck |-> FALSE,
       impact_score |-> 8] }

\* a text is the sequence of its characters
INTRO_MESSAGE == [text |-> <<"Hello! I'm your AI process assistant.">>, sender |-> "bot"]
NoLabel == <<"", 0>>

\* ----------------------------------------------------------------- state
VARIABLES
    topology,             \* fetchTopology effect: "pending" until its fetch settles
    processes,            \* ProcessNode[]
    availableStaff,       \* Employee[]: the pool
    assignments,          \* Record<string, Employee[]> as its entries, in key order
    suggestion,           \* Suggestion | null as a list of at most one element
    suggestionProcess, isLoadingSuggestion, showSuggestion,
    suggestFetches,       \* the /api/suggest requests of fetchSuggestion in flight, by process
    isDraggingRef,
    drag,                 \* the gesture in progress: its draggableId and source
    toasts,               \* showToast calls made by the last step
    lastEvent,            \* the handler or callback that ran in the last step
    showSimModal, simPhase, simProgress, simResults,
    simAggregate,         \* Simulation | null as a list of at most one element
    runs,                 \* invocations of runFullSimulation suspended at an await
    waAvailableStaff, waAssignedStaff,  \* WorkforceAllocation's two lists
    waRequests,           \* the /api/simulate requests in flight, as the lists they carry
    messages,             \* FloatingChatbot: Message[] as [text, sender]
    inputValue, isLoading, connectionStatus,
    ws,                   \* ws.current: the place of the socket in sockets, 0 for null
    sockets,              \* the readyState of every WebSocket that is not closed, or is ws.current
    transmitted,          \* the texts passed to send()
    frameSinceSend,       \* history: a frame has arrived since the last text was passed to send()
    connects,             \* new WebSocket(...) calls made by the last step
    chatTimer,            \* the 1000 ms timer of the mount effect
    aggResults, agg,      \* allResults and agg of lines 272 and 301
    lastMouseEvent,       \* the auto-scroll effect: null, or the clientY of the last event
    scrollTop,            \* scrollContainerRef.current.scrollTop, in 1/EDGE_SIZE px
    poolScrollTop,        \* poolContainerRef.current.scrollTop, in 1/EDGE_SIZE px
    tickPending,          \* requestAnimationFrame callbacks pending (scrollAnimRef)
    listening             \* the mousemove listener of the effect is attached to window

ledgerVars == <<topology, processes, availableStaff, assignments>>
suggestVars == <<suggestion, suggestionProcess, isLoadingSuggestion, showSuggestion, suggestFetches>>
dragVars == <<isDraggingRef, drag>>
simVars == <<showSimModal, simPhase, simProgress, simResults, simAggregate, runs>>
waVars == <<waAvailableStaff, waAssignedStaff, waRequests>>
chatVars == <<messages, inputValue, isLoading, connectionStatus, ws, sockets, transmitted, connects,
              chatTimer, frameSinceSend>>
aggVars == <<aggResults, agg>>
scrollVars == <<lastMouseEvent, scrollTop, poolScrollTop, tickPending, listening>>
\* what the handlers of WorkforcePage and WorkforceAllocation do not write
notPageVars == <<chatVars, aggVars, scrollVars>>
\* what the handlers of FloatingChatbot cannot reach
notChatVars == <<ledgerVars, suggestVars, dragVars, simVars, waVars, aggVars, scrollVars>>
vars == <<ledgerVars, suggestVars, dragVars, toasts, lastEvent, simVars, waVars, chatVars, aggVars,
          scrollVars>>

\* ---------------------------------------------------- assignments (object)
\* assignments[processId] || []
Staff(asg, pid) ==
    IF \E k \in 1..Len(asg) : asg[k].id = pid
    THEN asg[CHOOSE k \in 1..Len(asg) : asg[k].id = pid].staff
    ELSE <<>>

\* { ...asg, [pid]: staff }: an existing key keeps its place, a new key goes last
WithStaff(asg, pid, staff) ==
    IF \E k \in 1..Len(asg) : asg[k].id = pid
    THEN [k \in 1..Len(asg) |-> IF asg[k].id = pid THEN [id |-> pid, staff |-> staff] ELSE asg[k]]
    ELSE Append(asg, [id |-> pid, staff |-> staff])

\* processes.find(p => p.id === pid)?.data.label || fallback
LabelOf(pid, fallback) ==
    IF \E k \in 1..Len(processes) : processes[k].id = pid
    THEN processes[CHOOSE k \in 1..Len(processes) : processes[k].id = pid].label
    ELSE fallback

HasProcess(pid) == \E k \in 1..Len(processes) : processes[k].id = pid

\* Object.values(assignments).reduce((sum, arr) => sum + arr.length, 0)
totalAssigned == Len(Flatten([k \in 1..Len(assignments) |-> assignments[k].staff]))

\* the droppables on screen: the pool and one per process card
Droppables == {PoolId} \cup {ProcessDroppable(processes[k].id) : k \in 1..Len(processes)}

\* the list shown inside a droppable
ListOf(d) == IF d = PoolId THEN availableStaff ELSE Staff(assignments, d.id)

\* WorkforcePage and WorkforceAllocation after their first render
PageInit ==
    /\ topology = "pending"
    /\ processes = <<>>
    /\ availableStaff = initialEmployees
    /\ assignments = <<>>
    /\ suggestion = <<>>
    /\ suggestionProcess = NoLabel
    /\ isLoadingSuggestion = FALSE
    /\ showSuggestion = FALSE
    /\ suggestFetches = <<>>
    /\ isDraggingRef = FALSE
    /\ drag = NoDrag
    /\ toasts = <<>>
    /\ lastEvent = "mount"
    /\ showSimModal = FALSE
    /\ simPhase = "idle"
    /\ simProgress = [current |-> 0, total |-> 0, label |-> NoLabel]
    /\ simResults = <<>>
    /\ simAggregate = <<>>
    /\ runs = <<>>
    /\ waAvailableStaff = initialEmployees
    /\ waAssignedStaff = <<>>
    /\ waRequests = <<>>
    /\ lastMouseEvent = <<>>
    /\ scrollTop = 0
    /\ poolScrollTop = 0
    /\ tickPending = 1
    /\ listening = TRUE

\* FloatingChatbot after its first render, before its effects have run
ChatInit ==
    /\ messages = <<INTRO_MESSAGE>>
    /\ inputValue = <<>>
    /\ isLoading = FALSE
    /\ connectionStatus = "connecting"
    /\ ws = 0
    /\ sockets = <<>>
    /\ transmitted = <<>>
    /\ frameSinceSend = FALSE
    /\ connects = 0
    /\ chatTimer = "unset"

Init ==
    /\ PageInit
    /\ ChatInit
    /\ aggResults = <<>>
    /\ agg = <<>>

\* ------------------------------------------------------- fetchTopology
\* GET /api/topology answered with data.nodes = nodes
fetchTopologyResolve(nodes) ==
    /\ topology = "pending"
    /\ topology' = "done"
    /\ processes' = [k \in 1..Len(nodes) |-> ProcessNode(nodes[k])]
    /\ assignments' = [k \in 1..Len(nodes) |-> [id |-> nodes[k], staff |-> <<>>]]
    /\ toasts' = <<>>
    /\ lastEvent' = "fetchTopologyResolve"
    /\ UNCHANGED <<availableStaff, suggestVars, dragVars, simVars, waVars, notPageVars>>

\* the request fails, or its body is not JSON
fetchTopologyReject ==
    /\ topology = "pending"
    /\ topology' = "done"
    /\ toasts' = <<Toast("Failed to load process data", 0, NoLabel, "error")>>
    /\ lastEvent' = "fetchTopologyReject"
    /\ UNCHANGED <<processes, availableStaff, assignments, suggestVars, dragVars, simVars, waVars, notPageVars>>

\* ------------------------------------------------------------ drag and drop
onDragStart(draggableId, source) ==
    /\ ~isDraggingRef
    /\ source.droppableId \in Droppables
    /\ source.index < Len(ListOf(source.droppableId))
    /\ At(ListOf(source.droppableId), source.index) = draggableId
    /\ isDraggingRef' = TRUE
    /\ drag' = [draggableId |-> draggableId, source |-> source]
    /\ toasts' = <<>>
    /\ lastEvent' = "onDragStart"
    /\ UNCHANGED <<ledgerVars, suggestVars, simVars, waVars, notPageVars>>

NoFetch == [process_id |-> 0, process_label |-> NoLabel, assigned |-> <<>>]
NoChange == [pool |-> availableStaff, asg |-> assignments, toasts |-> <<>>, fetch |-> NoFetch]

\* lines 192-219: the source is the pool
AssignFromPoolKeepsPool(source, destination) ==
    LET draggedEmployee == At(availableStaff, source.index) IN
    IF draggedEmployee = Undefined THEN NoChange
    ELSE IF destination.droppableId.kind = "process" THEN
        LET processId == destination.droppableId.id
            newAssignments == WithStaff(assignments, processId,
                                        Append(Staff(assignments, processId), draggedEmployee))
        IN  [pool |-> availableStaff,
             asg |-> newAssignments,
             toasts |-> <<Toast("Assigned", draggedEmployee,
                                LabelOf(processId, <<"process", 0>>), "success")>>,
             fetch |-> IF HasProcess(processId)
                       THEN [process_id |-> processId,
                             process_label |-> LabelOf(processId, NoLabel),
                             assigned |-> Staff(newAssignments, processId)]
                       ELSE NoFetch]
    ELSE NoChange

AssignFromPool(source, destination) ==
    LET draggedEmployee == At(availableStaff, source.index) IN
    IF draggedEmployee = Undefined THEN NoChange
    ELSE IF destination.droppableId.kind = "process" THEN
        LET processId == destination.droppableId.id
            newPool == SpliceOut(availableStaff, source.index)
            newAssignments == WithStaff(assignments, processId,
                                        Append(Staff(assignments, processId), draggedEmployee))
        IN  [pool |-> newPool,
             asg |-> newAssignments,
             toasts |-> <<Toast("Assigned", draggedEmployee,
                                LabelOf(processId, <<"process", 0>>), "success")>>,
             fetch |-> IF HasProcess(processId)
                       THEN [process_id |-> processId,
                             process_label |-> LabelOf(processId, NoLabel),
                             assigned |-> Staff(newAssignments, processId)]
                       ELSE NoFetch]
    ELSE NoChange

\* a return that puts the worker at the destination index of the pool
ReturnToPoolAtIndex(source, destination) ==
    LET processId == source.droppableId.id
        processStaff == Staff(assignments, processId)
        draggedEmployee == At(processStaff, source.index)
    IN
    IF draggedEmployee = Undefined THEN NoChange
    ELSE IF destination.droppableId = PoolId THEN
        [pool |-> SpliceIn(availableStaff, destination.index, draggedEmployee),
         asg |-> WithStaff(assignments, processId, SpliceOut(processStaff, source.index)),
         toasts |-> <<Toast("returned to pool", draggedEmployee, NoLabel, "info")>>,
         fetch |-> NoFetch]
    ELSE NoChange

\* a return that asks for a suggestion for the process it leaves
ReturnToPoolFetches(source, destination) ==
    LET processId == source.droppableId.id
        processStaff == Staff(assignments, processId)
        draggedEmployee == At(processStaff, source.index)
    IN
    IF draggedEmployee = Undefined THEN NoChange
    ELSE IF destination.droppableId = PoolId THEN
        [pool |-> Append(availableStaff, draggedEmployee),
         asg |-> WithStaff(assignments, processId, SpliceOut(processStaff, source.index)),
         toasts |-> <<Toast("returned to pool", draggedEmployee, NoLabel, "info")>>,
         fetch |-> [process_id |-> processId,
                    process_label |-> LabelOf(processId, NoLabel),
                    assigned |-> SpliceOut(processStaff, source.index)]]
    ELSE NoChange

\* lines 220-239: the source is a process card
ReturnToPool(source, destination) ==
    LET processId == source.droppableId.id
        processStaff == Staff(assignments, processId)
        draggedEmployee == At(processStaff, source.index)
    IN
    IF draggedEmployee = Undefined THEN NoChange
    ELSE IF destination.droppableId = PoolId THEN
        [pool |-> Append(availableStaff, draggedEmployee),
         asg |-> WithStaff(assignments, processId, SpliceOut(processStaff, source.index)),
         toasts |-> <<Toast("returned to pool", draggedEmployee, NoLabel, "info")>>,
         fetch |-> NoFetch]
    ELSE NoChange

\* what onDragEnd(result) does to the ledger, the toasts and the suggestion fetch
DragEndEffect(result) ==
    LET source == result.source
        destination == result.destination
    IN
    IF destination.droppableId = NoDestination THEN NoChange
    ELSE IF source.droppableId = destination.droppableId THEN NoChange
    ELSE IF source.droppableId = PoolId THEN AssignFromPool(source, destination)
    ELSE IF source.droppableId.kind = "process" THEN ReturnToPool(source, destination)
    ELSE NoChange

\* the synchronous part of fetchSuggestion: flags, then the request is sent
fetchSuggestionStart(req) ==
    /\ isLoadingSuggestion' = TRUE
    /\ suggestionProcess' = req.process_label
    /\ showSuggestion' = TRUE
    /\ suggestFetches' = Append(suggestFetches, [process_id |-> req.process_id,
                                                 process_label |-> req.process_label])
    /\ UNCHANGED suggestion

\* the drop targets: none, or a droppable on screen at its first or at a later
\* index (destination.index is not read by onDragEnd)
Destinations == {[droppableId |-> NoDestination, index |-> 0]}
                   \cup {[droppableId |-> d, index |-> i] : d \in Droppables, i \in {0, MaxEmployees}}

\* onDragEnd(result), with at most cap suggestion fetches in flight
onDragEndUpTo(destination, cap) ==
    LET result == [draggableId |-> drag.draggableId, source |-> drag.source,
                   destination |-> destination]
        eff == DragEndEffect(result)
    IN
    /\ isDraggingRef
    /\ isDraggingRef' = FALSE
    /\ drag' = NoDrag
    /\ availableStaff' = eff.pool
    /\ assignments' = eff.asg
    /\ toasts' = eff.toasts
    /\ IF eff.fetch # NoFetch
       THEN Len(suggestFetches) < cap /\ fetchSuggestionStart(eff.fetch)
       ELSE UNCHANGED suggestVars
    /\ lastEvent' = "onDragEnd"
    /\ UNCHANGED <<topology, processes, simVars, waVars, notPageVars>>

onDragEnd(destination) == onDragEndUpTo(destination, MaxInflight)

\* the X button of the chip at empIndex of process processId
removeFromProcess(processId, empIndex) ==
    LET processStaff == Staff(assignments, processId)
        emp == At(processStaff, empIndex)
    IN
    /\ HasProcess(processId)
    /\ empIndex < Len(processStaff)
    /\ IF emp = Undefined
       THEN UNCHANGED <<availableStaff, assignments>> /\ toasts' = <<>>
       ELSE /\ assignments' = WithStaff(assignments, processId, SpliceOut(processStaff, empIndex))
            /\ availableStaff' = Append(availableStaff, emp)
            /\ toasts' = <<Toast("returned to pool", emp, NoLabel, "info")>>
    /\ lastEvent' = "removeFromProcess"
    /\ UNCHANGED <<topology, processes, suggestVars, dragVars, simVars, waVars, notPageVars>>

\* ------------------------------------------------------- fetchSuggestion
\* the k-th request in flight is answered with data
fetchSuggestionResolve(k, data) ==
    /\ k \in 1..Len(suggestFetches)
    /\ suggestion' = <<data>>
    /\ isLoadingSuggestion' = FALSE
    /\ suggestFetches' = SpliceOut(suggestFetches, k - 1)
    /\ toasts' = <<>>
    /\ lastEvent' = "fetchSuggestionResolve"
    /\ UNCHANGED <<suggestionProcess, showSuggestion, ledgerVars, dragVars, simVars, waVars, notPageVars>>

\* a failure that takes the last worker of the process back to the pool
fetchSuggestionRejectRollsBack(k) ==
    /\ k \in 1..Len(suggestFetches)
    /\ LET processId == suggestFetches[k].process_id
           processStaff == Staff(assignments, processId)
       IN  IF processStaff = <<>>
           THEN UNCHANGED <<availableStaff, assignments>>
           ELSE /\ availableStaff' = Append(availableStaff, processStaff[Len(processStaff)])
                /\ assignments' = WithStaff(assignments, processId,
                                            SubSeq(processStaff, 1, Len(processStaff) - 1))
    /\ isLoadingSuggestion' = FALSE
    /\ suggestFetches' = SpliceOut(suggestFetches, k - 1)
    /\ toasts' = <<Toast("Could not get AI suggestion", 0, NoLabel, "error")>>
    /\ lastEvent' = "fetchSuggestionReject"
    /\ UNCHANGED <<suggestion, suggestionProcess, showSuggestion, topology, processes, dragVars,
                   simVars, waVars, notPageVars>>

fetchSuggestionReject(k) ==
    /\ k \in 1..Len(suggestFetches)
    /\ isLoadingSuggestion' = FALSE
    /\ suggestFetches' = SpliceOut(suggestFetches, k - 1)
    /\ toasts' = <<Toast("Could not get AI suggestion", 0, NoLabel, "error")>>
    /\ lastEvent' = "fetchSuggestionReject"
    /\ UNCHANGED <<suggestion, suggestionProcess, showSuggestion, ledgerVars, dragVars, simVars, waVars, notPageVars>>

\* the answers /api/suggest may give to a request
SuggestResponses(req) ==
    {[simulation |-> s, ai_suggestion |-> Advice(req.process_label)] : s \in Simulations}

\* the answer drawn for a request of the panel or of a pipeline step: one per request
DrawnResponses(req) ==
    {[simulation |-> s, ai_suggestion |-> Advice(req.process_label)] :
        s \in {x \in Simulations : x.is_bottleneck}}

\* ------------------------------------------------------ runFullSimulation
RECURSIVE Gcd(_, _)
Gcd(a, b) == IF b = 0 THEN a ELSE Gcd(b, a % b)

\* the quotient a / b of two non-negative numbers, b > 0, in lowest terms
Quotient(a, b) == LET g == Gcd(a, b) IN [num |-> a \div g, den |-> b \div g]

RECURSIVE Sum(_)
Sum(s) == IF s = <<>> THEN 0 ELSE Head(s) + Sum(Tail(s))

Field(allResults, f) == [k \in 1..Len(allResults) |-> allResults[k].simulation[f]]

\* an aggregate whose means are sums
AggregateSumsFields(allResults) ==
    [cycle_time_before |-> Quotient(Sum(Field(allResults, "cycle_time_before")), 1),
     cycle_time_after |-> Quotient(Sum(Field(allResults, "cycle_time_after")), 1),
     cycle_reduction_pct |-> Quotient(Sum(Field(allResults, "cycle_reduction_pct")), 1),
     throughput_gain_pct |-> Quotient(Sum(Field(allResults, "throughput_gain_pct")), 1),
     opex_increase |-> Sum(Field(allResults, "opex_increase")),
     is_bottleneck |-> \E k \in 1..Len(allResults) : allResults[k].simulation.is_bottleneck,
     impact_score |-> Quotient(Sum(Field(allResults, "impact_score")), 1)]

\* an aggregate whose opex_increase is averaged
AggregateAveragesOpex(allResults) ==
    [cycle_time_before |-> Quotient(Sum(Field(allResults, "cycle_time_before")), Len(allResults)),
     cycle_time_after |-> Quotient(Sum(Field(allResults, "cycle_time_after")), Len(allResults)),
     cycle_reduction_pct |-> Quotient(Sum(Field(allResults, "cycle_reduction_pct")), Len(allResults)),
     throughput_gain_pct |-> Quotient(Sum(Field(allResults, "throughput_gain_pct")), Len(allResults)),
     opex_increase |-> Sum(Field(allResults, "opex_increase")) \div Len(allResults),
     is_bottleneck |-> \E k \in 1..Len(allResults) : allResults[k].simulation.is_bottleneck,
     impact_score |-> Quotient(Sum(Field(allResults, "impact_score")), Len(allResults))]

\* an aggregate that is a bottleneck only if every result is
AggregateEveryBottleneck(allResults) ==
    [cycle_time_before |-> Quotient(Sum(Field(allResults, "cycle_time_before")), Len(allResults)),
     cycle_time_after |-> Quotient(Sum(Field(allResults, "cycle_time_after")), Len(allResults)),
     cycle_reduction_pct |-> Quotient(Sum(Field(allResults, "cycle_reduction_pct")), Len(allResults)),
     throughput_gain_pct |-> Quotient(Sum(Field(allResults, "throughput_gain_pct")), Len(allResults)),
     opex_increase |-> Sum(Field(allResults, "opex_increase")),
     is_bottleneck |-> \A k \in 1..Len(allResults) : allResults[k].simulation.is_bottleneck,
     impact_score |-> Quotient(Sum(Field(allResults, "impact_score")), Len(allResults))]

\* the aggregate of lines 301-309
Aggregate(allResults) ==
    [cycle_time_before |-> Quotient(Sum(Field(allResults, "cycle_time_before")), Len(allResults)),
     cycle_time_after |-> Quotient(Sum(Field(allResults, "cycle_time_after")), Len(allResults)),
     cycle_reduction_pct |-> Quotient(Sum(Field(allResults, "cycle_reduction_pct")), Len(allResults)),
     throughput_gain_pct |-> Quotient(Sum(Field(allResults, "throughput_gain_pct")), Len(allResults)),
     opex_increase |-> Sum(Field(allResults, "opex_increase")),
     is_bottleneck |-> \E k \in 1..Len(allResults) : allResults[k].simulation.is_bottleneck,
     impact_score |-> Quotient(Sum(Field(allResults, "impact_score")), Len(allResults))]

\* lines 301-310 applied to a list of results
computeAggregate ==
    /\ agg = <<>>
    /\ agg' = <<Aggregate(aggResults)>>
    /\ toasts' = <<>>
    /\ lastEvent' = "computeAggregate"
    /\ UNCHANGED <<aggResults, ledgerVars, suggestVars, dragVars, simVars, waVars, chatVars,
                   scrollVars>>

\* Object.entries(assignments) without the filter
assignedProcessesUnfiltered == assignments

\* Object.entries(assignments).filter(([, staff]) => staff.length > 0)
assignedProcesses == SelectSeq(assignments, LAMBDA e : Len(e.staff) > 0)

\* step i taken from the end of procs
StepRequestReversed(procs, i) ==
    [process_id |-> procs[Len(procs) + 1 - i].id,
     process_label |-> LabelOf(procs[Len(procs) + 1 - i].id, <<"Unknown", 0>>),
     assigned |-> procs[Len(procs) + 1 - i].staff]

\* the body of the request of step i of a run over procs
StepRequest(procs, i) ==
    [process_id |-> procs[i].id,
     process_label |-> LabelOf(procs[i].id, <<"Unknown", 0>>),
     assigned |-> procs[i].staff]

\* the Run Digital Twin button is on screen and enabled
RunButtonEnabled == totalAssigned > 0 /\ ~isLoadingSuggestion

\* an entry guard that returns without a notification
runFullSimulationSilentReturn ==
    /\ IF Len(assignedProcesses) = 0
       THEN /\ toasts' = <<>>
            /\ UNCHANGED simVars
       ELSE LET req == StepRequest(assignedProcesses, 1) IN
            /\ showSimModal' = TRUE
            /\ simPhase' = "simulating"
            /\ simResults' = <<>>
            /\ simAggregate' = <<>>
            /\ simProgress' = [current |-> 1, total |-> Len(assignedProcesses),
                               label |-> req.process_label]
            /\ runs' = Append(runs, [procs |-> assignedProcesses, i |-> 1, allResults |-> <<>>,
                                     calls |-> <<req>>, fetch |-> <<>>, timer |-> FALSE,
                                     stage |-> "step"])
            /\ toasts' = <<>>
    /\ lastEvent' = "runFullSimulation"
    /\ UNCHANGED <<ledgerVars, suggestVars, dragVars, waVars, notPageVars>>

\* runFullSimulation(), up to its return or to the first await of the loop
runFullSimulation ==
    /\ IF Len(assignedProcesses) = 0
       THEN /\ toasts' = <<Toast("No employees assigned yet", 0, NoLabel, "error")>>
            /\ UNCHANGED simVars
       ELSE LET req == StepRequest(assignedProcesses, 1) IN
            /\ showSimModal' = TRUE
            /\ simPhase' = "simulating"
            /\ simResults' = <<>>
            /\ simAggregate' = <<>>
            /\ simProgress' = [current |-> 1, total |-> Len(assignedProcesses),
                               label |-> req.process_label]
            /\ runs' = Append(runs, [procs |-> assignedProcesses, i |-> 1, allResults |-> <<>>,
                                     calls |-> <<req>>, fetch |-> <<>>, timer |-> FALSE,
                                     stage |-> "step"])
            /\ toasts' = <<>>
    /\ lastEvent' = "runFullSimulation"
    /\ UNCHANGED <<ledgerVars, suggestVars, dragVars, waVars, notPageVars>>

\* a loop that reads the ledger of the latest render at every step
CompleteStepReadsLedger(k, res) ==
    LET run == runs[k]
        allResults == Append(run.allResults,
                             [processName |-> run.calls[run.i].process_label,
                              simulation |-> res.simulation,
                              suggestion |-> res.ai_suggestion])
    IN
    /\ simResults' = allResults
    /\ IF run.i < Len(assignedProcesses)
       THEN LET req == StepRequest(assignedProcesses, run.i + 1) IN
            /\ simProgress' = [current |-> run.i + 1, total |-> Len(assignedProcesses),
                               label |-> req.process_label]
            /\ runs' = [runs EXCEPT ![k] = [run EXCEPT !.i = run.i + 1,
                                                        !.allResults = allResults,
                                                        !.calls = Append(run.calls, req),
                                                        !.fetch = <<>>,
                                                        !.timer = FALSE]]
            /\ UNCHANGED simPhase
       ELSE /\ simPhase' = "analyzing"
            /\ runs' = [runs EXCEPT ![k] = [run EXCEPT !.allResults = allResults,
                                                        !.stage = "analyzing"]]
            /\ UNCHANGED simProgress
    /\ UNCHANGED <<showSimModal, simAggregate>>

\* Promise.all of step i of run k has resolved with res: lines 292-297
CompleteStep(k, res) ==
    LET run == runs[k]
        allResults == Append(run.allResults,
                             [processName |-> run.calls[run.i].process_label,
                              simulation |-> res.simulation,
                              suggestion |-> res.ai_suggestion])
    IN
    /\ simResults' = allResults
    /\ IF run.i < Len(run.procs)
       THEN LET req == StepRequest(run.procs, run.i + 1) IN
            /\ simProgress' = [current |-> run.i + 1, total |-> Len(run.procs),
                               label |-> req.process_label]
            /\ runs' = [runs EXCEPT ![k] = [run EXCEPT !.i = run.i + 1,
                                                        !.allResults = allResults,
                                                        !.calls = Append(run.calls, req),
                                                        !.fetch = <<>>,
                                                        !.timer = FALSE]]
            /\ UNCHANGED simPhase
       ELSE /\ simPhase' = "analyzing"
            /\ runs' = [runs EXCEPT ![k] = [run EXCEPT !.allResults = allResults,
                                                        !.stage = "analyzing"]]
            /\ UNCHANGED simProgress
    /\ UNCHANGED <<showSimModal, simAggregate>>

\* a step that is completed by the answer alone
simFetchResolveIgnoresTimer(k, res) ==
    /\ k \in 1..Len(runs)
    /\ runs[k].stage = "step"
    /\ runs[k].fetch = <<>>
    /\ CompleteStep(k, res)
    /\ toasts' = <<>>
    /\ lastEvent' = "simFetchResolve"
    /\ UNCHANGED <<ledgerVars, suggestVars, dragVars, waVars, notPageVars>>

\* the /api/suggest call of the current step of run k is answered with res
simFetchResolve(k, res) ==
    /\ k \in 1..Len(runs)
    /\ runs[k].stage = "step"
    /\ runs[k].fetch = <<>>
    /\ IF runs[k].timer
       THEN CompleteStep(k, res)
       ELSE /\ runs' = [runs EXCEPT ![k].fetch = <<res>>]
            /\ UNCHANGED <<showSimModal, simPhase, simProgress, simResults, simAggregate>>
    /\ toasts' = <<>>
    /\ lastEvent' = "simFetchResolve"
    /\ UNCHANGED <<ledgerVars, suggestVars, dragVars, waVars, notPageVars>>

\* the 600 ms timer of the current step of run k fires
simTimerFire(k) ==
    /\ k \in 1..Len(runs)
    /\ runs[k].stage = "step"
    /\ ~runs[k].timer
    /\ IF runs[k].fetch # <<>>
       THEN CompleteStep(k, runs[k].fetch[1])
       ELSE /\ runs' = [runs EXCEPT ![k].timer = TRUE]
            /\ UNCHANGED <<showSimModal, simPhase, simProgress, simResults, simAggregate>>
    /\ toasts' = <<>>
    /\ lastEvent' = "simTimerFire"
    /\ UNCHANGED <<ledgerVars, suggestVars, dragVars, waVars, notPageVars>>

\* a catch block without setSimPhase('idle')
simFetchRejectKeepsPhase(k) ==
    /\ k \in 1..Len(runs)
    /\ runs[k].stage = "step"
    /\ runs[k].fetch = <<>>
    /\ toasts' = <<Toast("Simulation failed", 0, NoLabel, "error")>>
    /\ showSimModal' = FALSE
    /\ runs' = SpliceOut(runs, k - 1)
    /\ lastEvent' = "simFetchReject"
    /\ UNCHANGED <<simPhase, simProgress, simResults, simAggregate>>
    /\ UNCHANGED <<ledgerVars, suggestVars, dragVars, waVars, notPageVars>>

\* the /api/suggest call of the current step of run k fails: the catch block
simFetchReject(k) ==
    /\ k \in 1..Len(runs)
    /\ runs[k].stage = "step"
    /\ runs[k].fetch = <<>>
    /\ toasts' = <<Toast("Simulation failed", 0, NoLabel, "error")>>
    /\ showSimModal' = FALSE
    /\ simPhase' = "idle"
    /\ runs' = SpliceOut(runs, k - 1)
    /\ UNCHANGED <<simProgress, simResults, simAggregate>>
    /\ lastEvent' = "simFetchReject"
    /\ UNCHANGED <<ledgerVars, suggestVars, dragVars, waVars, notPageVars>>

\* the 1200 ms timer of the analyzing phase of run k fires: lines 300-313
analyzeTimerFire(k) ==
    /\ k \in 1..Len(runs)
    /\ runs[k].stage = "analyzing"
    /\ simAggregate' = <<Aggregate(runs[k].allResults)>>
    /\ simPhase' = "complete"
    /\ runs' = SpliceOut(runs, k - 1)
    /\ toasts' = <<>>
    /\ UNCHANGED <<showSimModal, simProgress, simResults>>
    /\ lastEvent' = "analyzeTimerFire"
    /\ UNCHANGED <<ledgerVars, suggestVars, dragVars, waVars, notPageVars>>

\* the close button of the modal header, or Apply & Close
dismissModal ==
    /\ showSimModal
    /\ simPhase = "complete"
    /\ showSimModal' = FALSE
    /\ simPhase' = "idle"
    /\ toasts' = <<>>
    /\ UNCHANGED <<simProgress, simResults, simAggregate, runs>>
    /\ lastEvent' = "dismissModal"
    /\ UNCHANGED <<ledgerVars, suggestVars, dragVars, waVars, notPageVars>>

\* ------------------------------------------------- WorkforceAllocation
WaDroppables == {"available", "assigned"}
WaList(d) == IF d = "available" THEN waAvailableStaff ELSE waAssignedStaff

\* the two lists after onDragEnd(result), as [available, assigned], and
\* whether setAssignedStaff was called (with a new array)
WaDragEndEffect(result) ==
    LET sourceList == WaList(result.source.droppableId)
        destList == WaList(result.destination.droppableId)
    IN
    IF result.destination.droppableId = "none"
    THEN [available |-> waAvailableStaff, assigned |-> waAssignedStaff, setAssigned |-> FALSE]
    ELSE IF result.source.droppableId = result.destination.droppableId
    THEN LET reorderedItem == At(sourceList, result.source.index)
             items == SpliceIn(SpliceOut(sourceList, result.source.index),
                               result.destination.index, reorderedItem)
         IN  IF result.source.droppableId = "available"
             THEN [available |-> items, assigned |-> waAssignedStaff, setAssigned |-> FALSE]
             ELSE [available |-> waAvailableStaff, assigned |-> items, setAssigned |-> TRUE]
    ELSE LET movedItem == At(sourceList, result.source.index)
             sourceClone == SpliceOut(sourceList, result.source.index)
             destClone == SpliceIn(destList, result.destination.index, movedItem)
         IN  IF result.source.droppableId = "available"
             THEN [available |-> sourceClone, assigned |-> destClone, setAssigned |-> TRUE]
             ELSE [available |-> destClone, assigned |-> sourceClone, setAssigned |-> TRUE]

\* an effect that sends the list whenever it runs
updateAllocationEffectSendsEmpty(setAssigned, assigned) ==
    IF setAssigned
    THEN Len(waRequests) < MaxSync /\ waRequests' = Append(waRequests, assigned)
    ELSE UNCHANGED waRequests

WaStrays == Count(waAvailableStaff, Undefined) + Count(waAssignedStaff, Undefined)

\* the effect on [assignedStaff]: it runs when the array is a new one and
\* sends it when it is not empty
updateAllocationEffect(setAssigned, assigned) ==
    IF setAssigned /\ Len(assigned) > 0
    THEN Len(waRequests) < MaxSync /\ waRequests' = Append(waRequests, assigned)
    ELSE UNCHANGED waRequests

\* onDragEnd(result), the render and the effect that follow it
waOnDragEnd(result) ==
    LET eff == WaDragEndEffect(result) IN
    /\ waAvailableStaff' = eff.available
    /\ waAssignedStaff' = eff.assigned
    /\ updateAllocationEffect(eff.setAssigned, eff.assigned)
    /\ Count(eff.available, Undefined) + Count(eff.assigned, Undefined) <= MaxStray
    /\ toasts' = <<>>
    /\ lastEvent' = "waOnDragEnd"
    /\ UNCHANGED <<ledgerVars, suggestVars, dragVars, simVars, notPageVars>>

\* the fetch of the k-th request resolves, whatever the status of the response
waSimulateResolve(k) ==
    /\ k \in 1..Len(waRequests)
    /\ waRequests' = SpliceOut(waRequests, k - 1)
    /\ toasts' = <<Toast("Digital Twin simulation updated.", 0, NoLabel, "success")>>
    /\ lastEvent' = "waSimulateResolve"
    /\ UNCHANGED <<waAvailableStaff, waAssignedStaff, ledgerVars, suggestVars, dragVars, simVars,
                   notPageVars>>

\* the fetch of the k-th request rejects
waSimulateReject(k) ==
    /\ k \in 1..Len(waRequests)
    /\ waRequests' = SpliceOut(waRequests, k - 1)
    /\ toasts' = <<Toast("Simulation sync failed.", 0, NoLabel, "error")>>
    /\ lastEvent' = "waSimulateReject"
    /\ UNCHANGED <<waAvailableStaff, waAssignedStaff, ledgerVars, suggestVars, dragVars, simVars,
                   notPageVars>>

\* the drop results: any source and destination index; destination "none" is null
WaDropResults ==
    {[source |-> [droppableId |-> s, index |-> i], destination |-> [droppableId |-> d, index |-> j]] :
        s \in WaDroppables, d \in WaDroppables \cup {"none"},
        i \in 0..(MaxEmployees + MaxStray), j \in 0..(MaxEmployees + MaxStray)}

\* ------------------------------------------------------ FloatingChatbot
\* the texts typed into the input: nothing, a blank, a word after a blank
InputTexts == {<<>>, <<" ">>, <<" ", "a">>}

\* the frames the server sends
Frames == {<<"reply">>}

Warning == [text |-> <<"Disconnected. Reconnecting...">>, sender |-> "bot"]

\* String.prototype.trim over the blank
RECURSIVE TrimStart(_)
TrimStart(t) == IF t # <<>> /\ Head(t) = " " THEN TrimStart(Tail(t)) ELSE t

RECURSIVE TrimEnd(_)
TrimEnd(t) == IF t # <<>> /\ t[Len(t)] = " " THEN TrimEnd(SubSeq(t, 1, Len(t) - 1)) ELSE t

Trim(t) == TrimEnd(TrimStart(t))

\* ws.current?.readyState === WebSocket.OPEN, for the socket at place s
IsOpen(s) == s # 0 /\ sockets[s] = "OPEN"

\* sockets once socket s is closed: a closed socket that ws.current does not
\* hold fires no event and is referenced by nothing, so it is forgotten
Closed(s) == IF s = ws THEN [sockets EXCEPT ![s] = "CLOSED"] ELSE SpliceOut(sockets, s - 1)

\* ws.current once socket s is closed
RefAfterClose(s) == IF s < ws THEN ws - 1 ELSE ws

\* the sockets that stay when ws.current is overwritten
Kept == IF ws # 0 /\ sockets[ws] = "CLOSED" THEN SpliceOut(sockets, ws - 1) ELSE sockets

\* a connectWebSocket that leaves the status as it is
connectWebSocketKeepsStatus ==
    IF IsOpen(ws)
    THEN connects' = 0 /\ UNCHANGED <<connectionStatus, ws, sockets>>
    ELSE /\ Len(Kept) < MaxSockets
         /\ UNCHANGED connectionStatus
         /\ sockets' = Append(Kept, "CONNECTING")
         /\ ws' = Len(Kept) + 1
         /\ connects' = 1

\* connectWebSocket(): what it does to the status, the ref and the sockets
connectWebSocket ==
    IF IsOpen(ws)
    THEN connects' = 0 /\ UNCHANGED <<connectionStatus, ws, sockets>>
    ELSE /\ Len(Kept) < MaxSockets
         /\ connectionStatus' = "connecting"
         /\ sockets' = Append(Kept, "CONNECTING")
         /\ ws' = Len(Kept) + 1
         /\ connects' = 1

\* the effects of the first render: connect, then arm the 1000 ms timer
chatMount ==
    /\ chatTimer = "unset"
    /\ connectWebSocket
    /\ chatTimer' = "pending"
    /\ toasts' = <<>>
    /\ lastEvent' = "chatMount"
    /\ UNCHANGED <<frameSinceSend, messages, inputValue, isLoading, transmitted, notChatVars>>

\* the 1000 ms timer fires
chatTimerFire ==
    /\ chatTimer = "pending"
    /\ chatTimer' = "fired"
    /\ IF ~IsOpen(ws)
       THEN connectWebSocket
       ELSE connects' = 0 /\ UNCHANGED <<connectionStatus, ws, sockets>>
    /\ toasts' = <<>>
    /\ lastEvent' = "chatTimerFire"
    /\ UNCHANGED <<frameSinceSend, messages, inputValue, isLoading, transmitted, notChatVars>>

\* the Reconnect button, on screen while the status is disconnected
clickReconnect ==
    /\ connectionStatus = "disconnected"
    /\ connectWebSocket
    /\ toasts' = <<>>
    /\ lastEvent' = "clickReconnect"
    /\ UNCHANGED <<frameSinceSend, messages, inputValue, isLoading, transmitted, chatTimer, notChatVars>>

\* socket s opens: socket.onopen
socketOpen(s) ==
    /\ s \in 1..Len(sockets)
    /\ sockets[s] = "CONNECTING"
    /\ sockets' = [sockets EXCEPT ![s] = "OPEN"]
    /\ connectionStatus' = "connected"
    /\ connects' = 0
    /\ toasts' = <<>>
    /\ lastEvent' = "socketOpen"
    /\ UNCHANGED <<frameSinceSend, messages, inputValue, isLoading, ws, transmitted, chatTimer, notChatVars>>

\* a frame that leaves the loading indicator as it is
socketMessageKeepsLoading(s, frame) ==
    /\ s \in 1..Len(sockets)
    /\ sockets[s] = "OPEN"
    /\ Len(messages) < MaxMessages
    /\ messages' = Append(messages, [text |-> frame, sender |-> "bot"])
    /\ connects' = 0
    /\ toasts' = <<>>
    /\ frameSinceSend' = TRUE
    /\ lastEvent' = "socketMessage"
    /\ UNCHANGED <<inputValue, isLoading, connectionStatus, ws, sockets, transmitted, chatTimer,
                   notChatVars>>

\* a frame that is put in front of the list
socketMessagePrepends(s, frame) ==
    /\ s \in 1..Len(sockets)
    /\ sockets[s] = "OPEN"
    /\ Len(messages) < MaxMessages
    /\ messages' = <<[text |-> frame, sender |-> "bot"]>> \o messages
    /\ isLoading' = FALSE
    /\ connects' = 0
    /\ toasts' = <<>>
    /\ frameSinceSend' = TRUE
    /\ lastEvent' = "socketMessage"
    /\ UNCHANGED <<inputValue, connectionStatus, ws, sockets, transmitted, chatTimer, notChatVars>>

\* a frame arrives on socket s: socket.onmessage
socketMessage(s, frame) ==
    /\ s \in 1..Len(sockets)
    /\ sockets[s] = "OPEN"
    /\ Len(messages) < MaxMessages
    /\ messages' = Append(messages, [text |-> frame, sender |-> "bot"])
    /\ isLoading' = FALSE
    /\ connects' = 0
    /\ toasts' = <<>>
    /\ frameSinceSend' = TRUE
    /\ lastEvent' = "socketMessage"
    /\ UNCHANGED <<inputValue, connectionStatus, ws, sockets, transmitted, chatTimer, notChatVars>>

\* a close event that starts a new connection
socketCloseReconnects(s) ==
    /\ s \in 1..Len(sockets)
    /\ sockets[s] \in {"CONNECTING", "OPEN"}
    /\ sockets' = Append(SpliceOut(sockets, s - 1), "CONNECTING")
    /\ ws' = Len(sockets)
    /\ connectionStatus' = "connecting"
    /\ connects' = 1
    /\ toasts' = <<>>
    /\ lastEvent' = "socketClose"
    /\ UNCHANGED <<frameSinceSend, messages, inputValue, isLoading, transmitted, chatTimer, notChatVars>>

\* the connection of socket s is closed: socket.onclose
socketClose(s) ==
    /\ s \in 1..Len(sockets)
    /\ sockets[s] \in {"CONNECTING", "OPEN"}
    /\ sockets' = Closed(s)
    /\ ws' = RefAfterClose(s)
    /\ connectionStatus' = "disconnected"
    /\ connects' = 0
    /\ toasts' = <<>>
    /\ lastEvent' = "socketClose"
    /\ UNCHANGED <<frameSinceSend, messages, inputValue, isLoading, transmitted, chatTimer, notChatVars>>

\* the connection of socket s fails: socket.onerror, then socket.onclose
socketError(s) ==
    /\ s \in 1..Len(sockets)
    /\ sockets[s] \in {"CONNECTING", "OPEN"}
    /\ sockets' = Closed(s)
    /\ ws' = RefAfterClose(s)
    /\ connectionStatus' = "disconnected"
    /\ connects' = 0
    /\ toasts' = <<>>
    /\ lastEvent' = "socketError"
    /\ UNCHANGED <<frameSinceSend, messages, inputValue, isLoading, transmitted, chatTimer, notChatVars>>

\* a send that warns without reconnecting
handleSendMessageNoReconnect ==
    /\ IF Trim(inputValue) = <<>> \/ isLoading
       THEN UNCHANGED <<frameSinceSend, messages, inputValue, isLoading, connectionStatus, ws, sockets,
                        transmitted>>
            /\ connects' = 0
       ELSE LET userMsg == [text |-> inputValue, sender |-> "user"] IN
            /\ inputValue' = <<>>
            /\ IF IsOpen(ws)
               THEN /\ Len(messages) < MaxMessages
                    /\ Len(transmitted) < MaxSent
                    /\ messages' = Append(messages, userMsg)
                    /\ isLoading' = TRUE
                    /\ frameSinceSend' = FALSE
                    /\ transmitted' = Append(transmitted, userMsg.text)
                    /\ connects' = 0
                    /\ UNCHANGED <<connectionStatus, ws, sockets>>
               ELSE /\ Len(messages) + 1 < MaxMessages
                    /\ messages' = messages \o <<userMsg, Warning>>
                    /\ isLoading' = FALSE
                    /\ UNCHANGED frameSinceSend
                    /\ connects' = 0 /\ UNCHANGED <<connectionStatus, ws, sockets>>
                    /\ UNCHANGED transmitted
    /\ toasts' = <<>>
    /\ lastEvent' = "handleSendMessage"
    /\ UNCHANGED <<chatTimer, notChatVars>>

\* a send that transmits the trimmed text
handleSendMessageSendsTrimmed ==
    /\ IF Trim(inputValue) = <<>> \/ isLoading
       THEN UNCHANGED <<frameSinceSend, messages, inputValue, isLoading, connectionStatus, ws, sockets,
                        transmitted>>
            /\ connects' = 0
       ELSE LET userMsg == [text |-> inputValue, sender |-> "user"] IN
            /\ inputValue' = <<>>
            /\ IF IsOpen(ws)
               THEN /\ Len(messages) < MaxMessages
                    /\ Len(transmitted) < MaxSent
                    /\ messages' = Append(messages, userMsg)
                    /\ isLoading' = TRUE
                    /\ frameSinceSend' = FALSE
                    /\ transmitted' = Append(transmitted, Trim(userMsg.text))
                    /\ connects' = 0
                    /\ UNCHANGED <<connectionStatus, ws, sockets>>
               ELSE /\ Len(messages) + 1 < MaxMessages
                    /\ messages' = messages \o <<userMsg, Warning>>
                    /\ isLoading' = FALSE
                    /\ UNCHANGED frameSinceSend
                    /\ connectWebSocket
                    /\ UNCHANGED transmitted
    /\ toasts' = <<>>
    /\ lastEvent' = "handleSendMessage"
    /\ UNCHANGED <<chatTimer, notChatVars>>

\* a send that does not look at the loading indicator
handleSendMessageIgnoresLoading ==
    /\ IF Trim(inputValue) = <<>>
       THEN UNCHANGED <<frameSinceSend, messages, inputValue, isLoading, connectionStatus, ws, sockets,
                        transmitted>>
            /\ connects' = 0
       ELSE LET userMsg == [text |-> inputValue, sender |-> "user"] IN
            /\ inputValue' = <<>>
            /\ IF IsOpen(ws)
               THEN /\ Len(messages) < MaxMessages
                    /\ Len(transmitted) < MaxSent
                    /\ messages' = Append(messages, userMsg)
                    /\ isLoading' = TRUE
                    /\ frameSinceSend' = FALSE
                    /\ transmitted' = Append(transmitted, userMsg.text)
                    /\ connects' = 0
                    /\ UNCHANGED <<connectionStatus, ws, sockets>>
               ELSE /\ Len(messages) + 1 < MaxMessages
                    /\ messages' = messages \o <<userMsg, Warning>>
                    /\ isLoading' = FALSE
                    /\ UNCHANGED frameSinceSend
                    /\ connectWebSocket
                    /\ UNCHANGED transmitted
    /\ toasts' = <<>>
    /\ lastEvent' = "handleSendMessage"
    /\ UNCHANGED <<chatTimer, notChatVars>>

\* the form's onSubmit: lines 77-104
handleSendMessage ==
    /\ IF Trim(inputValue) = <<>> \/ isLoading
       THEN UNCHANGED <<frameSinceSend, messages, inputValue, isLoading, connectionStatus, ws, sockets,
                        transmitted>>
            /\ connects' = 0
       ELSE LET userMsg == [text |-> inputValue, sender |-> "user"] IN
            /\ inputValue' = <<>>
            /\ IF IsOpen(ws)
               THEN /\ Len(messages) < MaxMessages
                    /\ Len(transmitted) < MaxSent
                    /\ messages' = Append(messages, userMsg)
                    /\ isLoading' = TRUE
                    /\ frameSinceSend' = FALSE
                    /\ transmitted' = Append(transmitted, userMsg.text)
                    /\ connects' = 0
                    /\ UNCHANGED <<connectionStatus, ws, sockets>>
               ELSE /\ Len(messages) + 1 < MaxMessages
                    /\ messages' = messages \o <<userMsg, Warning>>
                    /\ isLoading' = FALSE
                    /\ UNCHANGED frameSinceSend
                    /\ connectWebSocket
                    /\ UNCHANGED transmitted
    /\ toasts' = <<>>
    /\ lastEvent' = "handleSendMessage"
    /\ UNCHANGED <<chatTimer, notChatVars>>

\* the input's onChange
onChange(value) ==
    /\ inputValue' = value
    /\ inputValue # value
    /\ connects' = 0
    /\ toasts' = <<>>
    /\ lastEvent' = "onChange"
    /\ UNCHANGED <<frameSinceSend, messages, isLoading, connectionStatus, ws, sockets, transmitted, chatTimer,
                   notChatVars>>

\* a reset that also closes the socket
clearChatClosesSocket ==
    /\ messages' = <<INTRO_MESSAGE>>
    /\ connectionStatus' = "disconnected"
    /\ sockets' = IF ws = 0 THEN sockets ELSE [sockets EXCEPT ![ws] = "CLOSED"]
    /\ connects' = 0
    /\ toasts' = <<>>
    /\ lastEvent' = "clearChat"
    /\ UNCHANGED <<frameSinceSend, inputValue, isLoading, ws, transmitted, chatTimer, notChatVars>>

\* the Clear button
clearChat ==
    /\ messages' = <<INTRO_MESSAGE>>
    /\ connects' = 0
    /\ toasts' = <<>>
    /\ lastEvent' = "clearChat"
    /\ UNCHANGED <<frameSinceSend, inputValue, isLoading, connectionStatus, ws, sockets, transmitted, chatTimer,
                   notChatVars>>

\* ---------------------------------------------------------- auto-scroll
EDGE_SIZE == 80
SCROLL_SPEED == 8

\* what getBoundingClientRect() returns for the process column and for the
\* pool: the layout sets no least height, so a region may be shorter than two bands
ScrollRects == {[top |-> 100, bottom |-> 400], [top |-> 100, bottom |-> 220]}
PoolRects == {[top |-> 140, bottom |-> 400]}

\* the clientY of the mousemove events: on the top boundaries, inside the top
\* bands, between the bands, inside the bottom bands, on the bottom boundary
PointerYs == {100, 140, 160, 170, 250, 360, 400}

\* the largest scrollTop a region takes
ScrollMax == MaxScrollPx * EDGE_SIZE

\* the value el.scrollTop holds after it was assigned v
Clamp(v) == IF v < 0 THEN 0 ELSE IF v > ScrollMax THEN ScrollMax ELSE v

\* el.scrollTop after lines 77-88 (lines 94-103 for the pool), in 1/EDGE_SIZE px:
\* SCROLL_SPEED * (1 - d / EDGE_SIZE) px is SCROLL_SPEED * (EDGE_SIZE - d) units
ScrollBy(rect, pos, y) ==
    IF y < rect.top + EDGE_SIZE /\ y > rect.top
    THEN Clamp(pos - SCROLL_SPEED * (EDGE_SIZE - (y - rect.top)))
    ELSE IF y > rect.bottom - EDGE_SIZE /\ y < rect.bottom
    THEN Clamp(pos + SCROLL_SPEED * (EDGE_SIZE - (rect.bottom - y)))
    ELSE pos

handleMouseMove(y, rect, poolRect) ==
    IF ~isDraggingRef
    THEN UNCHANGED <<scrollTop, poolScrollTop>>
    ELSE /\ scrollTop' = ScrollBy(rect, scrollTop, y)
         /\ poolScrollTop' = ScrollBy(poolRect, poolScrollTop, y)

\* a listener that asks for a frame at every event
onMouseMoveSchedules(y) ==
    /\ listening
    /\ lastMouseEvent' = <<y>>
    /\ tickPending' = tickPending + 1
    /\ toasts' = <<>>
    /\ lastEvent' = "onMouseMove"
    /\ UNCHANGED <<scrollTop, poolScrollTop, listening, ledgerVars, suggestVars, dragVars,
                   simVars, waVars, chatVars, aggVars>>

\* the window's mousemove listener
onMouseMove(y) ==
    /\ listening
    /\ lastMouseEvent' = <<y>>
    /\ toasts' = <<>>
    /\ lastEvent' = "onMouseMove"
    /\ UNCHANGED <<scrollTop, poolScrollTop, tickPending, listening, ledgerVars, suggestVars,
                   dragVars, simVars, waVars, chatVars, aggVars>>

\* a frame callback that scrolls whether or not a drag is in progress
tickIgnoresDragFlag ==
    /\ tickPending > 0
    /\ IF lastMouseEvent # <<>>
       THEN \E rect \in ScrollRects, poolRect \in PoolRects :
                /\ scrollTop' = ScrollBy(rect, scrollTop, lastMouseEvent[1])
                /\ poolScrollTop' = ScrollBy(poolRect, poolScrollTop, lastMouseEvent[1])
       ELSE UNCHANGED <<scrollTop, poolScrollTop>>
    /\ tickPending' = (tickPending - 1) + 1
    /\ toasts' = <<>>
    /\ lastEvent' = "tick"
    /\ UNCHANGED <<lastMouseEvent, listening, ledgerVars, suggestVars, dragVars, simVars, waVars,
                   chatVars, aggVars>>

\* the frame callback while the regions have the rects rect and poolRect: it
\* runs, and requests the next frame
tickAt(rect, poolRect) ==
    /\ tickPending > 0
    /\ IF lastMouseEvent # <<>> /\ isDraggingRef
       THEN handleMouseMove(lastMouseEvent[1], rect, poolRect)
       ELSE UNCHANGED <<scrollTop, poolScrollTop>>
    /\ tickPending' = (tickPending - 1) + 1
    /\ toasts' = <<>>
    /\ lastEvent' = "tick"
    /\ UNCHANGED <<lastMouseEvent, listening, ledgerVars, suggestVars, dragVars, simVars, waVars,
                   chatVars, aggVars>>

tick == \E rect \in ScrollRects, poolRect \in PoolRects : tickAt(rect, poolRect)

\* the cleanup of the effect, when the page is left
scrollCleanup ==
    /\ listening
    /\ listening' = FALSE
    /\ tickPending' = 0
    /\ toasts' = <<>>
    /\ lastEvent' = "scrollCleanup"
    /\ UNCHANGED <<lastMouseEvent, scrollTop, poolScrollTop, ledgerVars, suggestVars, dragVars,
                   simVars, waVars, chatVars, aggVars>>

\* ------------------------------------------------------- specifications
\* the effects of the first render have run
Mounted == chatTimer # "unset"

ChatNext ==
    \/ chatMount
    \/ chatTimerFire
    \/ clickReconnect
    \/ \E s \in 1..Len(sockets) : socketOpen(s)
    \/ \E s \in 1..Len(sockets), frame \in Frames : socketMessage(s, frame)
    \/ \E s \in 1..Len(sockets) : socketClose(s)
    \/ \E s \in 1..Len(sockets) : socketError(s)
    \/ Mounted /\ \E value \in InputTexts : onChange(value)
    \/ Mounted /\ handleSendMessage
    \/ Mounted /\ clearChat

\* FloatingChatbot
SpecChat == Init /\ [][ChatNext]_vars

DragSources ==
    {[droppableId |-> d, index |-> i] : d \in Droppables, i \in 0..(MaxEmployees - 1)}

\* the topology responses drawn: the nodes n, n-1, ..., 1 for n up to MaxNodes
Topologies == {[k \in 1..n |-> n + 1 - k] : n \in 0..MaxNodes}

SuggestNext ==
    \/ \E k \in 1..Len(suggestFetches) : \E data \in DrawnResponses(suggestFetches[k]) :
           fetchSuggestionResolve(k, data)
    \/ \E k \in 1..Len(suggestFetches) : fetchSuggestionReject(k)

LedgerNext ==
    \/ \E nodes \in Topologies : fetchTopologyResolve(nodes)
    \/ fetchTopologyReject
    \/ \E e \in Employees, source \in DragSources : onDragStart(e, source)
    \/ \E destination \in Destinations : onDragEnd(destination)
    \/ \E p \in ProcIds, i \in 0..(MaxEmployees - 1) : removeFromProcess(p, i)
    \/ SuggestNext

\* the page as the pointer finds it between two gestures: the modal overlay
\* (fixed inset-0) does not cover the cards, and the last suggestion has settled
Quiet == ~showSimModal /\ suggestFetches = <<>>

\* the gestures drawn next to the pipeline: the head of the pool is picked up
\* while the page is quiet
AssignNext ==
    \/ \E nodes \in Topologies : fetchTopologyResolve(nodes)
    \/ Quiet /\ \E e \in Employees : onDragStart(e, [droppableId |-> PoolId, index |-> 0])
    \/ \E destination \in Destinations : onDragEnd(destination)
    \/ SuggestNext

\* the steps of the runs in flight, and the dismiss of the modal
PipelineNext ==
    \/ \E k \in 1..Len(runs) : \E res \in DrawnResponses(runs[k].calls[runs[k].i]) :
           simFetchResolve(k, res)
    \/ \E k \in 1..Len(runs) : simTimerFire(k)
    \/ \E k \in 1..Len(runs) : simFetchReject(k)
    \/ \E k \in 1..Len(runs) : analyzeTimerFire(k)
    \/ dismissModal

\* a click on Run Digital Twin, and what follows it
SimNext ==
    \/ RunButtonEnabled /\ Len(runs) < MaxRuns /\ runFullSimulation
    \/ PipelineNext

WaSettleNext ==
    \/ \E k \in 1..Len(waRequests) : waSimulateResolve(k)
    \/ \E k \in 1..Len(waRequests) : waSimulateReject(k)

\* any drop result, handled once the requests of the last one have settled
WaNext ==
    \/ waRequests = <<>> /\ \E result \in WaDropResults : waOnDragEnd(result)
    \/ WaSettleNext

\* the drop results of gestures on the cards on screen: the source index holds
\* a card and the destination index is a place of the destination list
WaGestures ==
    {result \in WaDropResults :
        /\ result.source.index < Len(WaList(result.source.droppableId))
        /\ \/ result.destination.droppableId = "none" /\ result.destination.index = 0
           \/ /\ result.destination.droppableId # "none"
              /\ result.destination.index <= Len(WaList(result.destination.droppableId))}

SyncNext ==
    \/ \E result \in WaGestures : waOnDragEnd(result)
    \/ WaSettleNext

\* runFullSimulation called while nothing is assigned (the button that calls it
\* is on screen only while totalAssigned > 0), next to assignments, removals of
\* the first chip of a card, and runs that are started one after the other
TriggerNext ==
    \/ AssignNext
    \/ Quiet /\ runs = <<>> /\ \E p \in ProcIds : removeFromProcess(p, 0)
    \/ RunButtonEnabled /\ runs = <<>> /\ runFullSimulation
    \/ PipelineNext
    \/ totalAssigned = 0 /\ runFullSimulation

\* WorkforcePage: the ledger and the suggestion fetch
SpecLedger == Init /\ [][LedgerNext]_vars

\* the gestures and removals of LedgerNext, a gesture starting once the
\* suggestion fetch of the last one has settled
GestureNext ==
    \/ \E nodes \in Topologies : fetchTopologyResolve(nodes)
    \/ suggestFetches = <<>>
           /\ \E e \in Employees, source \in DragSources : onDragStart(e, source)
    \/ \E destination \in Destinations : onDragEnd(destination)
    \/ \E p \in ProcIds, i \in 0..(MaxEmployees - 1) : removeFromProcess(p, i)
    \/ SuggestNext

\* WorkforcePage: moves between the pool and the cards
SpecGesture == Init /\ [][GestureNext]_vars

\* WorkforcePage: assignments followed by runs of the simulation pipeline
Spec == Init /\ [][AssignNext \/ SimNext]_vars

\* clicks on Run Digital Twin while a run is in flight
OverlapNext ==
    \/ AssignNext
    \/ RunButtonEnabled /\ Len(runs) < MaxOverlap /\ runFullSimulation
    \/ PipelineNext

\* WorkforcePage: runs of the pipeline that overlap; the 1200 ms timer of a run
\* that analyzes fires
SpecOverlap ==
    Init /\ [][OverlapNext]_vars /\ WF_vars(\E k \in 1..Len(runs) : analyzeTimerFire(k))

\* the first run of a session and the gestures before and under it: the chips
\* behind the modal are reached with the keyboard
SnapshotNext ==
    \/ simResults = <<>> /\ AssignNext
    \/ runs # <<>> /\ \E p \in ProcIds : removeFromProcess(p, 0)
    \/ RunButtonEnabled /\ runs = <<>> /\ simPhase = "idle" /\ simResults = <<>>
           /\ runFullSimulation
    \/ PipelineNext

\* WorkforcePage: the ledger changes under a run of the pipeline
SpecSnapshot == Init /\ [][SnapshotNext]_vars

\* assignments in quick succession: a chip is picked up while the suggestion
\* fetch of the last drop is in flight; the fetches resolve
RaceNext ==
    \/ \E nodes \in Topologies : fetchTopologyResolve(nodes)
    \/ \E e \in Employees, source \in DragSources : onDragStart(e, source)
    \/ \E destination \in Destinations : onDragEndUpTo(destination, MaxRace)
    \/ \E k \in 1..Len(suggestFetches) : \E data \in DrawnResponses(suggestFetches[k]) :
           fetchSuggestionResolve(k, data)

\* WorkforcePage: suggestion fetches that overlap
SpecRace == Init /\ [][RaceNext]_vars

\* WorkforcePage: the entry guard of runFullSimulation
SpecTrigger == Init /\ [][TriggerNext]_vars

\* sequences over S of length 1 to n
RECURSIVE SeqsUpTo(_, _)
SeqsUpTo(S, n) ==
    IF n = 0 THEN {}
    ELSE {<<x>> : x \in S}
           \cup {Append(t, x) : t \in SeqsUpTo(S, n - 1), x \in S}

\* the lists allResults may be when the loop is left: one entry per location
ResultLists ==
    {[k \in 1..Len(sims) |-> [processName |-> Label(k), simulation |-> sims[k],
                               suggestion |-> Advice(Label(k))]] :
        sims \in SeqsUpTo(SampleSimulations, MaxResults)}

AggregateInit ==
    /\ PageInit
    /\ ChatInit
    /\ aggResults \in ResultLists
    /\ agg = <<>>

\* the aggregate of runFullSimulation, over lists of results
SpecAggregate == AggregateInit /\ [][computeAggregate]_vars

\* WorkforceAllocation
SpecAlloc == Init /\ [][WaNext]_vars

\* gestures on the cards of the pool, the pointer and the frames
ScrollNext ==
    \/ listening /\ \E e \in Employees, source \in DragSources : onDragStart(e, source)
    \/ listening /\ \E destination \in Destinations : onDragEnd(destination)
    \/ \E y \in PointerYs : onMouseMove(y)
    \/ tick
    \/ scrollCleanup

\* WorkforcePage: the auto-scroll effect during gestures
SpecScroll == Init /\ [][ScrollNext]_vars

\* WorkforceAllocation: gestures and the requests of its effect
SpecSync == Init /\ [][SyncNext]_vars

\* ------------------------------------------------------------------ claims
\* every list of the ledger, the pool first
AllLists == availableStaff \o Flatten([k \in 1..Len(assignments) |-> assignments[k].staff])

\* C1: in WorkforcePage every seed worker appears exactly once across the pool
\* and all process lists, after any gestures, removals and the topology load.
C1_EveryWorkerExactlyOnce ==
    /\ Len(AllLists) = MaxEmployees
    /\ \A e \in Employees : Count(AllLists, e) = 1

\* a worker went back to the pool while another one is still assigned
C1_Witness ==
    /\ lastEvent = "removeFromProcess"
    /\ totalAssigned > 0
    /\ Len(availableStaff) > 0

\* the source no longer holds the dragged worker at the source index
StaleGesture ==
    /\ isDraggingRef
    /\ At(ListOf(drag.source.droppableId), drag.source.index) # drag.draggableId

\* C2: a drag-end whose source does not hold the dragged worker at the source
\* index changes nothing: ledger unchanged, no notification, no suggestion fetch.
C2_StaleDragEndIsNoOp ==
    [][(StaleGesture /\ lastEvent' = "onDragEnd")
         => /\ availableStaff' = availableStaff
            /\ assignments' = assignments
            /\ toasts' = <<>>
            /\ suggestFetches' = suggestFetches]_vars

\* C3: in WorkforceAllocation the two lists together always hold exactly the
\* seed workers: none duplicated, none dropped, no entry that is not a worker.
C3_WaListsHoldSeed ==
    LET all == waAvailableStaff \o waAssignedStaff IN
    /\ Len(all) = MaxEmployees
    /\ \A e \in Employees : Count(all, e) = 1

PhaseTransitions ==
    { <<"idle", "simulating">>, <<"simulating", "analyzing">>, <<"analyzing", "complete">>,
      <<"simulating", "idle">>, <<"complete", "idle">> }

\* C4: the phase only changes idle -> simulating -> analyzing -> complete,
\* simulating -> idle (failed step) and complete -> idle (dismiss).
C4_OnlyListedPhaseChanges ==
    [][simPhase' # simPhase => <<simPhase, simPhase'>> \in PhaseTransitions]_vars

SimulationFailed == Toast("Simulation failed", 0, NoLabel, "error")

\* C5: a failing remote call of a step aborts its run: the phase becomes idle,
\* the modal closes, an error is notified, and the run leaves the pipeline in
\* its step stage, so that it issues no further call and never analyzes.
C5_FailedStepAbortsRun ==
    [][lastEvent' = "simFetchReject"
         => /\ simPhase' = "idle"
            /\ ~showSimModal'
            /\ toasts' = <<SimulationFailed>>
            /\ \E k \in 1..Len(runs) :
                   /\ runs[k].stage = "step"
                   /\ runs' = SpliceOut(runs, k - 1)]_vars

\* a step failed while locations remained to be processed
C5_Witness ==
    /\ lastEvent = "simFetchReject"
    /\ simPhase = "idle"
    /\ simProgress.current < simProgress.total

\* C6: after a run is aborted by a failing step the orchestrator is idle and
\* holds no partial result: the results list is empty and the aggregate absent.
C6_AbortRetainsNothing ==
    lastEvent = "simFetchReject"
        => (simPhase = "idle" /\ simResults = <<>> /\ simAggregate = <<>>)

\* C7: dismissing in complete returns to idle and clears results and aggregate.
C7_DismissClears ==
    lastEvent = "dismissModal"
        => (simPhase = "idle" /\ simResults = <<>> /\ simAggregate = <<>>)

\* C8: while the phase is complete there is one result per processed location,
\* the aggregate is present, and nothing but the dismiss changes phase,
\* results or aggregate.
C8_CompleteHoldsUntilDismiss ==
    [][simPhase = "complete"
         => /\ Len(simResults) = simProgress.total
            /\ simAggregate # <<>>
            /\ \/ lastEvent' = "dismissModal"
               \/ UNCHANGED <<simPhase, simResults, simAggregate>>]_vars

\* the keys of the ledger whose list is not empty
NonEmptyKeys == {k \in 1..Len(assignments) : assignments[k].staff # <<>>}

\* the calls of every run in flight: one per location of its snapshot, in
\* order, none for an empty list, and all of them once the run analyzes
RunCallsMatchSnapshot ==
    \A k \in 1..Len(runs) :
        LET run == runs[k] IN
        /\ Len(run.calls) <= Len(run.procs)
        /\ \A j \in 1..Len(run.calls) :
               /\ run.calls[j].process_id = run.procs[j].id
               /\ run.calls[j].assigned = run.procs[j].staff
               /\ run.calls[j].assigned # <<>>
        /\ \A a, b \in 1..Len(run.procs) : run.procs[a].id = run.procs[b].id => a = b
        /\ run.stage = "analyzing" => Len(run.calls) = Len(run.procs)

\* a trigger snapshots exactly the non-empty locations and counts them
TriggerTakesNonEmpty ==
    (lastEvent' = "runFullSimulation" /\ Len(runs') = Len(runs) + 1)
        => LET run == runs'[Len(runs')] IN
           /\ simProgress'.total = Cardinality(NonEmptyKeys)
           /\ Len(run.procs) = Cardinality(NonEmptyKeys)
           /\ \A k \in 1..Len(assignments) :
                  k \in NonEmptyKeys <=> \E j \in 1..Len(run.procs) : run.procs[j] = assignments[k]

\* C9: a run processes exactly the locations that are non-empty at trigger
\* time: total counts them, one call is issued per such location, none for an
\* empty one.
C9_RunProcessesNonEmpty == [](RunCallsMatchSnapshot) /\ [][TriggerTakesNonEmpty]_vars

\* a run finished its steps although a location of the ledger was left out
C9_Witness ==
    \E k \in 1..Len(runs) :
        /\ runs[k].stage = "analyzing"
        /\ Len(runs[k].procs) < Len(assignments)

\* the place of a process in the iteration order of the ledger
LedgerPos(pid) == CHOOSE k \in 1..Len(assignments) : assignments[k].id = pid
LabelPos(label) == CHOOSE k \in 1..Len(processes) : processes[k].label = label

\* one call outstanding per run, results in the order of the calls, calls and
\* displayed results in ledger order
RunsAreSequential ==
    /\ \A k \in 1..Len(runs) :
           LET run == runs[k] IN
           /\ run.stage = "step" => Len(run.calls) = Len(run.allResults) + 1
           /\ run.stage = "analyzing" => Len(run.calls) = Len(run.allResults)
           /\ \A j \in 1..Len(run.allResults) :
                  run.allResults[j].processName = run.calls[j].process_label
           /\ \A a, b \in 1..Len(run.calls) :
                  a < b => LedgerPos(run.calls[a].process_id) < LedgerPos(run.calls[b].process_id)
    /\ \A a, b \in 1..Len(simResults) :
           a < b => LabelPos(simResults[a].processName) < LabelPos(simResults[b].processName)

\* a run issues its next call in the step that appends the previous result
NextCallAfterResult ==
    Len(runs') = Len(runs)
        => \A k \in 1..Len(runs) :
               Len(runs'[k].calls) > Len(runs[k].calls)
                   => /\ Len(runs'[k].calls) = Len(runs[k].calls) + 1
                      /\ Len(runs'[k].allResults) = Len(runs[k].allResults) + 1
                      /\ simResults' = runs'[k].allResults

\* C10: within a run the calls are sequential and in ledger order: at most one
\* is outstanding, step i+1 is called only once the result of step i is
\* appended, and the results list follows the order of the ledger.
C10_StepsSequentialInLedgerOrder == [](RunsAreSequential) /\ [][NextCallAfterResult]_vars

\* the second call of a run is outstanding and the first result is in the list
C10_Witness ==
    \E k \in 1..Len(runs) :
        /\ runs[k].stage = "step"
        /\ runs[k].i = 2
        /\ runs[k].fetch = <<>>
        /\ Len(runs[k].allResults) = 1
        /\ simResults = runs[k].allResults

\* a step of a run was completed: its result was appended
StepCompleted(k) == Len(runs'[k].allResults) > Len(runs[k].allResults)

\* C11: a step completes (its result is appended, the next step begins) only
\* once both its remote call has resolved and its dwell timer has fired; an
\* answer that arrives before the timer changes neither results nor progress.
C11_StepNeedsAnswerAndDwell ==
    [][/\ Len(runs') = Len(runs)
           => \A k \in 1..Len(runs) :
                  StepCompleted(k)
                      => \/ lastEvent' = "simFetchResolve" /\ runs[k].timer
                         \/ lastEvent' = "simTimerFire" /\ runs[k].fetch # <<>>
       /\ (lastEvent' = "simFetchResolve" /\ \A k \in 1..Len(runs) : ~runs[k].timer)
           => UNCHANGED <<simResults, simProgress, simPhase>>]_vars

\* the answer of step 1 is in while its timer is pending: nothing has advanced
C11_Witness ==
    /\ lastEvent = "simFetchResolve"
    /\ \E k \in 1..Len(runs) :
           /\ runs[k].fetch # <<>>
           /\ ~runs[k].timer
           /\ runs[k].i = 1
           /\ simResults = <<>>
           /\ simProgress.current = 1
           /\ simProgress.total > 1

NoEmployeesAssigned == Toast("No employees assigned yet", 0, NoLabel, "error")

\* C12: a trigger while no location holds a worker is rejected: phase, modal,
\* progress, results and aggregate are unchanged, a notification is emitted and
\* no remote call is issued (no run starts, no fetch is sent).
C12_EmptyTriggerRejected ==
    [][(lastEvent' = "runFullSimulation" /\ NonEmptyKeys = {})
         => /\ UNCHANGED <<simPhase, showSimModal, simProgress, simResults, simAggregate>>
            /\ toasts' = <<NoEmployeesAssigned>>
            /\ UNCHANGED <<runs, suggestFetches>>]_vars

\* the trigger was rejected on a ledger of empty lists, after an earlier run
C12_Witness ==
    /\ lastEvent = "runFullSimulation"
    /\ toasts = <<NoEmployeesAssigned>>
    /\ Len(assignments) > 0
    /\ totalAssigned = 0
    /\ simResults # <<>>
    /\ simAggregate # <<>>

MeanFields ==
    {"cycle_time_before", "cycle_time_after", "cycle_reduction_pct", "throughput_gain_pct",
     "impact_score"}

\* q is the fraction total / n
IsFractionOf(q, total, n) == q.den > 0 /\ q.num * n = total * q.den

RECURSIVE Total(_, _)
Total(values, upTo) == IF upTo = 0 THEN 0 ELSE Total(values, upTo - 1) + values[upTo]

\* C13: over a non-empty list of N results the aggregate's cycle_time_before,
\* cycle_time_after, cycle_reduction_pct, throughput_gain_pct and impact_score
\* are each the arithmetic mean of that field over the N results.
C13_AggregateMeans ==
    agg # <<>>
        => \A f \in MeanFields :
               IsFractionOf(agg[1][f], Total(Field(aggResults, f), Len(aggResults)),
                            Len(aggResults))

\* cycle_reduction_pct 10, 20, 30 was aggregated to 20
C13_Witness ==
    /\ agg # <<>>
    /\ Field(aggResults, "cycle_reduction_pct") = <<10, 20, 30>>
    /\ agg[1].cycle_reduction_pct = [num |-> 20, den |-> 1]

\* C14: the aggregate's opex_increase is the exact sum of the per-location
\* opex_increase values, not their average.
C14_AggregateOpexIsSum ==
    agg # <<>>
        => agg[1].opex_increase = Total(Field(aggResults, "opex_increase"), Len(aggResults))

\* opex_increase 100, 250 was aggregated to 350, which is not the average
C14_Witness ==
    /\ agg # <<>>
    /\ Field(aggResults, "opex_increase") = <<100, 250>>
    /\ agg[1].opex_increase = 350

\* C15: the aggregate's is_bottleneck is true if and only if at least one of
\* the per-location results has is_bottleneck true.
C15_AggregateBottleneckIsAny ==
    agg # <<>>
        => (agg[1].is_bottleneck
               <=> Cardinality({k \in 1..Len(aggResults) :
                                   aggResults[k].simulation.is_bottleneck}) >= 1)

\* is_bottleneck false, true, false was aggregated to true
C15_Witness ==
    /\ agg # <<>>
    /\ Field(aggResults, "is_bottleneck") = <<FALSE, TRUE, FALSE>>
    /\ agg[1].is_bottleneck

\* the calls issued so far by the runs in flight
CallsIssued == Sum([k \in 1..Len(runs) |-> Len(runs[k].calls)])

\* C16: analyzing always succeeds: while the phase is analyzing no remote call
\* is issued, the phase is left only for complete with the aggregate set (never
\* for idle), and it is left eventually.
C16_AnalyzingAlwaysCompletes ==
    /\ [][simPhase = "analyzing"
            => /\ simPhase' \in {"analyzing", "complete"}
               /\ simPhase' = "complete" => simAggregate' # <<>>
               /\ Len(runs') <= Len(runs)
               /\ Len(runs') = Len(runs) => CallsIssued' = CallsIssued]_vars
    /\ (simPhase = "analyzing" ~> simPhase = "complete")

\* the handler does not return at its first line
SendAccepted == Trim(inputValue) # <<>> /\ ~isLoading

UserMessage(text) == [text |-> text, sender |-> "user"]

\* C17: a send while the socket is not open appends exactly two messages, the
\* user's text and then one warning, transmits nothing and attempts a
\* reconnect; no later event transmits the text: texts are transmitted only by
\* a send on an open socket.
C17_SendWhileNotConnected ==
    [][/\ (lastEvent' = "handleSendMessage" /\ SendAccepted /\ ~IsOpen(ws))
           => /\ messages' = messages \o <<UserMessage(inputValue), Warning>>
              /\ transmitted' = transmitted
              /\ connects' = 1
       /\ transmitted' # transmitted
           => (lastEvent' = "handleSendMessage" /\ SendAccepted /\ IsOpen(ws))]_vars

\* the send found the socket closed: text and warning follow the greeting,
\* nothing was transmitted and a new socket is connecting
C17_Witness ==
    /\ lastEvent = "handleSendMessage"
    /\ messages = <<INTRO_MESSAGE, UserMessage(<<" ", "a">>), Warning>>
    /\ transmitted = <<>>
    /\ connects = 1
    /\ sockets[ws] = "CONNECTING"

\* C18: a send while the socket is open appends exactly one user message and
\* transmits its raw text exactly once; from the greeting alone, the send and
\* then one inbound frame leave greeting, user text, assistant reply.
C18_SendWhileConnected ==
    [][/\ (lastEvent' = "handleSendMessage" /\ SendAccepted /\ IsOpen(ws))
           => /\ messages' = Append(messages, UserMessage(inputValue))
              /\ transmitted' = Append(transmitted, inputValue)
       /\ (/\ lastEvent = "handleSendMessage"
           /\ Len(messages) = 2 /\ messages[1] = INTRO_MESSAGE /\ messages[2].sender = "user"
           /\ lastEvent' = "socketMessage")
           => \E frame \in Frames :
                  messages' = <<INTRO_MESSAGE, messages[2], [text |-> frame, sender |-> "bot"]>>]_vars

\* greeting, the raw text and the reply, after one transmission
C18_Witness ==
    /\ lastEvent = "socketMessage"
    /\ messages = <<INTRO_MESSAGE, UserMessage(<<" ", "a">>), [text |-> <<"reply">>, sender |-> "bot"]>>
    /\ transmitted = << <<" ", "a">> >>

\* C19: the status is connecting on mount, an open event sets it to connected,
\* a close or error event sets it to disconnected, and it becomes connected by
\* nothing but an open event, every connection attempt setting it to connecting.
C19_StatusFollowsEvents ==
    /\ [](~Mounted => connectionStatus = "connecting")
    /\ [][/\ lastEvent' = "chatMount" => connectionStatus' = "connecting"
          /\ lastEvent' = "socketOpen" => connectionStatus' = "connected"
          /\ lastEvent' \in {"socketClose", "socketError"} => connectionStatus' = "disconnected"
          /\ connects' = 1 => connectionStatus' = "connecting"
          /\ (connectionStatus' = "connected" /\ lastEvent' # "socketOpen")
              => (connectionStatus = "connected" /\ connects' = 0)]_vars

\* a reconnect after a loss of the connection shows connecting again
C19_Witness ==
    /\ lastEvent = "clickReconnect"
    /\ connects = 1
    /\ connectionStatus = "connecting"
    /\ chatTimer = "fired"

\* C20: beside the connection of the mount, the only automatic attempt is the
\* one of the timer, which fires once; every other attempt is made by the
\* reconnect action or by a send that finds the socket not open; a close or
\* error event starts none.
C20_NoAutomaticRetry ==
    [][/\ connects' = 1
           => lastEvent' \in {"chatMount", "chatTimerFire", "clickReconnect", "handleSendMessage"}
       /\ lastEvent' = "chatMount" => ~Mounted
       /\ Mounted => chatTimer' # "unset"
       /\ lastEvent' = "chatTimerFire" => (chatTimer = "pending" /\ chatTimer' = "fired")
       /\ chatTimer = "fired" => chatTimer' = "fired"
       /\ (lastEvent' = "handleSendMessage" /\ connects' = 1) => (SendAccepted /\ ~IsOpen(ws))
       /\ lastEvent' \in {"socketClose", "socketError"} => connects' = 0]_vars

\* the connection was lost after the timer had fired and nothing reconnected
C20_Witness ==
    /\ lastEvent \in {"socketClose", "socketError"}
    /\ chatTimer = "fired"
    /\ connects = 0
    /\ \A s \in 1..Len(sockets) : sockets[s] = "CLOSED"

BotMessage(text) == [text |-> text, sender |-> "bot"]

\* C21: every inbound frame is appended as one assistant message at the end
\* of the list and clears the loading indicator, whatever the status, the
\* socket it arrives on and the indicator were.
C21_FrameAppendsAndClearsLoading ==
    [][lastEvent' = "socketMessage"
         => /\ \E frame \in Frames : messages' = Append(messages, BotMessage(frame))
            /\ isLoading' = FALSE]_vars

\* a frame arrived on a superseded socket while the status shows disconnected
\* and nothing had been sent
C21_Witness ==
    /\ lastEvent = "socketMessage"
    /\ connectionStatus = "disconnected"
    /\ ~IsOpen(ws)
    /\ transmitted = <<>>
    /\ messages = <<INTRO_MESSAGE, BotMessage(<<"reply">>)>>
    /\ ~isLoading

\* C22: the reset sets the list to the single greeting and leaves the status,
\* the current socket and every socket's state as they were; it connects nothing.
C22_ResetKeepsTransport ==
    [][lastEvent' = "clearChat"
         => /\ messages' = <<INTRO_MESSAGE>>
            /\ UNCHANGED <<connectionStatus, ws, sockets>>
            /\ connects' = 0]_vars

\* the list was reset after a text had been transmitted; the socket is still open
C22_Witness ==
    /\ lastEvent = "clearChat"
    /\ messages = <<INTRO_MESSAGE>>
    /\ transmitted # <<>>
    /\ connectionStatus = "connected"
    /\ IsOpen(ws)

\* C23: every operation but the reset leaves the messages held before as a
\* prefix of the new list, in the same order.
C23_MessagesAppendOnly ==
    [][lastEvent' # "clearChat"
         => /\ Len(messages') >= Len(messages)
            /\ SubSeq(messages', 1, Len(messages)) = messages]_vars

\* a send found the socket closed; the reconnect it started has opened and
\* the three messages are in place
C23_Witness ==
    /\ lastEvent = "socketOpen"
    /\ IsOpen(ws)
    /\ messages = <<INTRO_MESSAGE, UserMessage(<<" ", "a">>), Warning>>

\* the list of droppable d in the ledger made of pool and asg
ListIn(pool, asg, d) == IF d = PoolId THEN pool ELSE Staff(asg, d.id)

\* the gesture in progress holds its worker at the source index, and the
\* destination is another droppable on screen, at an index of its list
ValidMove(destination) ==
    /\ isDraggingRef
    /\ ~StaleGesture
    /\ destination.droppableId \in Droppables
    /\ destination.droppableId # drag.source.droppableId
    /\ destination.index <= Len(ListOf(destination.droppableId))

\* C25: a valid move between two different locations removes the worker from
\* the source list and inserts it into the destination list at the
\* destination index of the gesture, from the pool to a process and from a
\* process to another process (the move to the pool is C26).
C25_MoveInsertsAtDestinationIndex ==
    [][\A destination \in Destinations :
           (/\ ValidMove(destination)
            /\ destination.droppableId.kind = "process"
            /\ onDragEnd(destination))
               => /\ ListIn(availableStaff', assignments', drag.source.droppableId)
                        = SpliceOut(ListOf(drag.source.droppableId), drag.source.index)
                  /\ ListIn(availableStaff', assignments', destination.droppableId)
                        = SpliceIn(ListOf(destination.droppableId), destination.index,
                                   drag.draggableId)]_vars

\* the worker at index of processId is taken out and put at the end of the pool
ReturnedToPool(processId, index) ==
    LET processStaff == Staff(assignments, processId) IN
    /\ availableStaff' = Append(availableStaff, At(processStaff, index))
    /\ Staff(assignments', processId) = SpliceOut(processStaff, index)
    /\ \A q \in ProcIds \ {processId} : Staff(assignments', q) = Staff(assignments, q)
    /\ Len(assignments') = Len(assignments)

\* C26: removeFromProcess, and a drag from a process card onto the pool at any
\* destination index, take the worker at the given index out of that process
\* and append it at the end of the pool; the pool keeps its order and every
\* other process list is unchanged.
C26_ReturnAppendsToPool ==
    [][/\ \A p \in ProcIds, i \in 0..(MaxEmployees - 1) :
              (removeFromProcess(p, i) /\ At(Staff(assignments, p), i) # Undefined)
                  => ReturnedToPool(p, i)
       /\ \A destination \in Destinations :
              (/\ onDragEnd(destination)
               /\ drag.source.droppableId.kind = "process"
               /\ destination.droppableId = PoolId
               /\ At(ListOf(drag.source.droppableId), drag.source.index) # Undefined)
                  => ReturnedToPool(drag.source.droppableId.id, drag.source.index)]_vars

\* worker 1 was dragged from a card onto the pool and stands behind the
\* workers the pool held
C26_Witness ==
    /\ lastEvent = "onDragEnd"
    /\ toasts = <<Toast("returned to pool", 1, NoLabel, "info")>>
    /\ Len(availableStaff) > 1
    /\ availableStaff[Len(availableStaff)] = 1

FetchStarted == Len(suggestFetches') > Len(suggestFetches)

\* the list of process p has grown in the step
Grew(p) == Len(Staff(assignments', p)) > Len(Staff(assignments, p))

\* C27: a drag-end starts the suggestion fetch exactly when its destination is
\* a process whose worker count increased, and for that process; a move to
\* the pool, a same-location drop, a drop with no destination and a stale
\* gesture start none.
C27_FetchIffProcessGrew ==
    [][lastEvent' = "onDragEnd"
         => /\ FetchStarted <=> \E p \in ProcIds : Grew(p)
            /\ \A p \in ProcIds :
                   Grew(p) => suggestFetches' = Append(suggestFetches,
                                                      [process_id |-> p, process_label |-> Label(p)])
            /\ \A destination \in Destinations :
                   (/\ onDragEnd(destination)
                    /\ \/ destination.droppableId \in {NoDestination, PoolId, drag.source.droppableId}
                       \/ ~Grew(destination.droppableId.id))
                       => ~FetchStarted
            /\ StaleGesture => ~FetchStarted]_vars

\* worker 2 was dropped on a card that held a worker: one fetch, for that card
C27_Witness ==
    /\ lastEvent = "onDragEnd"
    /\ \E p \in ProcIds :
           /\ Len(Staff(assignments, p)) = 2
           /\ suggestFetches = <<[process_id |-> p, process_label |-> Label(p)]>>
           /\ suggestionProcess = Label(p)
    /\ isLoadingSuggestion

\* C28: the call of a drag-to-assign carries the list of the ledger as the
\* drop left it, the worker being out of the pool when it is issued; a failure
\* of the call leaves the ledger and the panel as they are: it shows one error
\* notification and clears the loading flag.
C28_AdvisoryCallNeverRollsBack ==
    [][/\ \A destination \in Destinations :
              LET eff == DragEndEffect([draggableId |-> drag.draggableId, source |-> drag.source,
                                        destination |-> destination])
                  draggedEmployee == At(availableStaff, drag.source.index)
              IN  (onDragEnd(destination) /\ eff.fetch # NoFetch)
                      => /\ eff.fetch.assigned = Staff(assignments', eff.fetch.process_id)
                         /\ Count(eff.fetch.assigned, draggedEmployee) = 1
                         /\ Count(availableStaff', draggedEmployee) = 0
       /\ lastEvent' = "fetchSuggestionReject"
              => /\ UNCHANGED <<ledgerVars, suggestion, suggestionProcess, showSuggestion>>
                 /\ toasts' = <<Toast("Could not get AI suggestion", 0, NoLabel, "error")>>
                 /\ isLoadingSuggestion' = FALSE
                 /\ Len(suggestFetches') = Len(suggestFetches) - 1]_vars

\* the call failed and the worker it was made for is still on the card
C28_Witness ==
    /\ lastEvent = "fetchSuggestionReject"
    /\ toasts = <<Toast("Could not get AI suggestion", 0, NoLabel, "error")>>
    /\ ~isLoadingSuggestion
    /\ showSuggestion
    /\ \E p \in ProcIds : suggestionProcess = Label(p) /\ Staff(assignments, p) # <<>>

SyncUpdated == Toast("Digital Twin simulation updated.", 0, NoLabel, "success")
SyncFailed == Toast("Simulation sync failed.", 0, NoLabel, "error")

\* C29: every change of the assigned list to a non-empty list issues exactly
\* one request carrying that list, and a change to the empty list issues
\* none; requests are issued by nothing else than a drop; the notification
\* 'simulation updated' is shown only when a request resolves, and a request
\* that fails shows the error notification instead.
C29_SyncRequestPerChange ==
    [][/\ lastEvent' = "waOnDragEnd"
           => /\ (waAssignedStaff' # waAssignedStaff /\ waAssignedStaff' # <<>>)
                  => waRequests' = Append(waRequests, waAssignedStaff')
              /\ waAssignedStaff' = <<>> => waRequests' = waRequests
              /\ toasts' = <<>>
       /\ Len(waRequests') > Len(waRequests) => lastEvent' = "waOnDragEnd"
       /\ (\E t \in 1..Len(toasts') : toasts'[t] = SyncUpdated)
           => (lastEvent' = "waSimulateResolve" /\ Len(waRequests') = Len(waRequests) - 1)
       /\ lastEvent' = "waSimulateResolve" => toasts' = <<SyncUpdated>>
       /\ lastEvent' = "waSimulateReject"
           => (toasts' = <<SyncFailed>> /\ Len(waRequests') = Len(waRequests) - 1)]_vars

\* the last worker went back to the available list: nothing was sent for the
\* empty list, and the request of the earlier assignment is still in flight
C29_Witness ==
    /\ lastEvent = "waOnDragEnd"
    /\ waAssignedStaff = <<>>
    /\ Len(waRequests) = 1
    /\ waRequests[1] # <<>>

\* C30: the auto-scroll controller starts inactive; a scroll position changes
\* only in a tick that runs while the drag flag is set; the flag is set by a
\* drag start only and cleared by every drag end, so no tick scrolls before
\* the first drag start nor between a drag end and the next drag start,
\* wherever the pointer is.
C30_ScrollOnlyWhileDragging ==
    /\ [](lastEvent = "mount"
            => (scrollTop = 0 /\ poolScrollTop = 0 /\ ~isDraggingRef /\ lastMouseEvent = <<>>))
    /\ [][/\ <<scrollTop, poolScrollTop>>' # <<scrollTop, poolScrollTop>>
              => (lastEvent' = "tick" /\ isDraggingRef /\ lastMouseEvent # <<>>)
          /\ (lastEvent' = "tick" /\ ~isDraggingRef) => UNCHANGED <<scrollTop, poolScrollTop>>
          /\ (~isDraggingRef /\ isDraggingRef') => lastEvent' = "onDragStart"
          /\ lastEvent' = "onDragEnd" => ~isDraggingRef']_vars

\* a tick ran after the drag had ended, the pointer inside the bottom band of
\* both regions, which the drag had scrolled
C30_Witness ==
    /\ lastEvent = "tick"
    /\ ~isDraggingRef
    /\ lastMouseEvent = <<360>>
    /\ scrollTop > 0
    /\ scrollTop < ScrollMax

\* C31: a pointer-move event records the position and does nothing else: no
\* scroll position changes and no callback is scheduled; exactly one tick
\* callback is pending from the mount to the cleanup of the effect, and a tick
\* that scrolls uses the position recorded last.
C31_SamplingDecoupledFromScroll ==
    /\ [](tickPending = IF listening THEN 1 ELSE 0)
    /\ [][/\ lastEvent' = "onMouseMove"
              => /\ \E y \in PointerYs : lastMouseEvent' = <<y>>
                 /\ UNCHANGED <<scrollTop, poolScrollTop, tickPending>>
          /\ lastEvent' # "onMouseMove" => UNCHANGED lastMouseEvent
          /\ lastEvent' = "tick"
              => \/ UNCHANGED <<scrollTop, poolScrollTop>>
                 \/ /\ lastMouseEvent # <<>>
                    /\ \E rect \in ScrollRects, poolRect \in PoolRects :
                           /\ scrollTop' = ScrollBy(rect, scrollTop, lastMouseEvent[1])
                           /\ poolScrollTop' = ScrollBy(poolRect, poolScrollTop,
                                                         lastMouseEvent[1])]_vars

\* during a drag the pointer has moved into the bottom bands and no frame has
\* run since: the position is recorded, nothing is scrolled, one tick is pending
C31_Witness ==
    /\ lastEvent = "onMouseMove"
    /\ isDraggingRef
    /\ lastMouseEvent = <<360>>
    /\ scrollTop = 0
    /\ poolScrollTop = 0
    /\ tickPending = 1

\* the pointer is inside the band of width EDGE_SIZE below the top boundary
InTopBand(rect, y) == y > rect.top /\ y < rect.top + EDGE_SIZE

\* the pointer is inside the band of width EDGE_SIZE above the bottom boundary
InBottomBand(rect, y) == y < rect.bottom /\ y > rect.bottom - EDGE_SIZE

\* the scroll of one region in a tick, as stated: none outside the two bands,
\* otherwise toward the nearer edge by speed * (1 - d / E), which is more than
\* nothing and at most speed, d being the distance from that edge
RegionScrolledAsStated(rect, pos, after, y) ==
    LET dTop == y - rect.top
        dBottom == rect.bottom - y
        up == Clamp(pos - SCROLL_SPEED * (EDGE_SIZE - dTop))
        down == Clamp(pos + SCROLL_SPEED * (EDGE_SIZE - dBottom))
    IN  /\ ~InTopBand(rect, y) /\ ~InBottomBand(rect, y) => after = pos
        /\ InTopBand(rect, y) /\ dTop < dBottom
            => /\ after = up
               /\ SCROLL_SPEED * (EDGE_SIZE - dTop) \in 1..(SCROLL_SPEED * EDGE_SIZE)
        /\ InBottomBand(rect, y) /\ dBottom < dTop
            => /\ after = down
               /\ SCROLL_SPEED * (EDGE_SIZE - dBottom) \in 1..(SCROLL_SPEED * EDGE_SIZE)
        /\ InTopBand(rect, y) /\ dTop = dBottom => after \in {up, down}

\* C32: in a tick with the drag flag set each region is scrolled on its own:
\* not at all when the pointer is outside its two bands, otherwise toward the
\* nearer edge by speed * (1 - d / E), an amount above zero and at most speed.
C32_ScrollAmountAndDirection ==
    [][\A rect \in ScrollRects, poolRect \in PoolRects :
          (isDraggingRef /\ lastMouseEvent # <<>> /\ tickAt(rect, poolRect))
          => /\ RegionScrolledAsStated(rect, scrollTop, scrollTop', lastMouseEvent[1])
             /\ RegionScrolledAsStated(poolRect, poolScrollTop, poolScrollTop',
                                       lastMouseEvent[1])]_vars

\* C33: two pipeline runs never overlap: a trigger while the phase is
\* simulating or analyzing starts no second pipeline, leaves the results as
\* they are and issues no remote call.
C33_RunsNeverOverlap ==
    /\ [](Len(runs) <= 1)
    /\ [][(simPhase \in {"simulating", "analyzing"} /\ lastEvent' = "runFullSimulation")
             => /\ runs' = runs
                /\ simResults' = simResults
                /\ CallsIssued' = CallsIssued]_vars

\* the progress and the results of a run that simulates agree
ProgressConsistent ==
    /\ simProgress.current \in 1..simProgress.total
    /\ Len(simResults) \in {simProgress.current - 1, simProgress.current}

\* C34: while the phase is simulating, 1 <= progress.current <= progress.total
\* and the results are progress.current - 1 or progress.current in number;
\* within a run progress.total is constant and progress.current never decreases.
C34_ProgressConsistent ==
    /\ [](simPhase = "simulating" => ProgressConsistent)
    /\ [][(simPhase = "simulating" /\ simPhase' = "simulating")
             => /\ simProgress'.total = simProgress.total
                /\ simProgress'.current >= simProgress.current]_vars

\* C35: a run works on the ledger as it was when the run was triggered: the
\* ledger changing under the run changes neither the locations the run goes
\* through and their order, nor progress.total, nor the worker lists of the
\* remote calls that remain.
C35_RunUsesSnapshot ==
    [][/\ (lastEvent' = "runFullSimulation" /\ runs' # <<>>)
           => runs'[1].procs = assignedProcesses
       /\ (runs # <<>> /\ runs' # <<>>)
           => /\ runs'[1].procs = runs[1].procs
              /\ simProgress'.total = Len(runs[1].procs)
              /\ Len(runs'[1].calls) = runs'[1].i
              /\ \A j \in 1..Len(runs'[1].calls) :
                     runs'[1].calls[j] = StepRequest(runs[1].procs, j)]_vars

\* the call of step 2 has just been issued, after a chip of the run was removed;
\* the call carries the worker list of the trigger
C35_Witness ==
    /\ runs # <<>>
    /\ lastEvent \in {"simFetchResolve", "simTimerFire"}
    /\ runs[1].i = 2
    /\ Len(runs[1].calls) = 2
    /\ assignedProcesses # runs[1].procs
    /\ runs[1].calls[2].assigned # Staff(assignments, runs[1].calls[2].process_id)

\* C36: with two suggestion fetches in flight, once both have resolved the
\* suggestion displayed is the response for the process named by
\* suggestionProcess, the one assigned last, in whatever order the responses
\* arrive; and the loading flag stays set while a fetch is outstanding.
C36_LatestSuggestionWins ==
    /\ (suggestFetches = <<>> /\ suggestion # <<>>)
           => suggestion[1].ai_suggestion = Advice(suggestionProcess)
    /\ suggestFetches # <<>> => isLoadingSuggestion

\* socket s fires an event: open, message, close or error
SocketEvent(s) ==
    \/ socketOpen(s)
    \/ \E frame \in Frames : socketMessage(s, frame)
    \/ socketClose(s)
    \/ socketError(s)

\* C37: the status displayed is that of the current socket: it is connected
\* only while ws.current is open, and no event of a socket that a later
\* connection attempt has superseded changes the status or the messages.
C37_StatusReflectsCurrentSocket ==
    /\ [](connectionStatus = "connected" => IsOpen(ws))
    /\ [][\A s \in 1..Len(sockets) :
             (s # ws /\ SocketEvent(s)) => UNCHANGED <<connectionStatus, messages>>]_vars

\* the sockets that are connecting or open
Live == {s \in 1..Len(sockets) : sockets[s] \in {"CONNECTING", "OPEN"}}

\* C38: at most one socket is connecting or open at any time: connectWebSocket
\* creates no socket while an earlier one is connecting or open.
C38_OneLiveSocket ==
    /\ [](Cardinality(Live) <= 1)
    /\ [][connects' = 1 => Live = {}]_vars

\* a text was transmitted and no frame has come since, and no socket is open:
\* the transport of the text has closed or failed
TransportLost == isLoading /\ \A s \in 1..Len(sockets) : sockets[s] # "OPEN"

\* C39: no send is blocked for ever: when the transport closes or fails after
\* a text was transmitted and before a frame arrives, the loading indicator
\* does not stay set: once a new socket has opened, or after a reset, it is
\* clear and a non-empty send is accepted.
C39_SendNotBlockedForEver ==
    [][(TransportLost /\ lastEvent' \in {"socketOpen", "clearChat"}) => ~isLoading']_vars

\* C40: at most one user message is outstanding: a send made while the loading
\* indicator is set, or with an empty or blank text, appends no message and
\* transmits nothing; so a frame has been received between any two texts
\* that are transmitted.
C40_OneOutstandingMessage ==
    [][/\ (lastEvent' = "handleSendMessage" /\ (isLoading \/ Trim(inputValue) = <<>>))
           => /\ UNCHANGED <<messages, transmitted, inputValue, isLoading>>
              /\ UNCHANGED <<connectionStatus, ws, sockets>>
              /\ connects' = 0
       /\ (transmitted' # transmitted /\ transmitted # <<>>) => frameSinceSend]_vars

\* a second text has just been transmitted, after the frame that answered the
\* first
C40_Witness ==
    /\ lastEvent = "handleSendMessage"
    /\ Len(transmitted) = 2
    /\ isLoading
    /\ ~frameSinceSend

====
